---------------------------- MODULE Spec2Model ----------------------------
(***************************************************************************)
(* A model of the ACL engine of mavikamtech/ssot:                          *)
(*   gql/graphql/internal/acl/types.go       permission model, CanAccess   *)
(*   gql/graphql/internal/acl/repository.go  DynamoRepository              *)
(*   gql/graphql/internal/acl/service.go     ACLService (merge, cache)     *)
(*   unnamed/part_007                        ACLMiddleware                 *)
(*   unnamed/part_010                        ACL mutation/query resolvers  *)
(*                                                                         *)
(* Strings.  A permission key "table#column" is the pair <<table, column>> *)
(* (table and column names hold no '#').  A principal name is a sequence   *)
(* of tokens; the token "group:" is the six-character prefix that          *)
(* isGroupName tests, every other token is a non-empty string that does    *)
(* not start with it, and string concatenation is \o.  So "group:admin" is *)
(* <<"group:", "admin">> and "admin" is <<"admin">>.                        *)
(*                                                                         *)
(* UpdatedAt is not modelled: no operation reads it.                       *)
(***************************************************************************)
EXTENDS Naturals, Sequences, FiniteSets, TLC

VARIABLES
  acl,      \* SpecAccess: the Permissions map of the MergedACL under test
  call,     \* SpecAccess: the last call of a pure function and its result
  store,    \* the DynamoDB table: PrincipalID -> ACLRecord, for the items stored
  cache,    \* ACLService.cache: email -> CacheEntry, for the keys present
  now,      \* time.Now(), in ticks
  res,      \* the position and locals of each GetMergedACL call in progress
  mut,      \* the position and locals of each mutation call in progress
  hist,     \* history variable: write numbers and the provenance of cache entries
  api,      \* SpecApi: the last resolver call, its reply and its effects
  ff,       \* SpecFilter: the FieldFilter under test
  mw,       \* SpecMw: the last ACLMiddleware call, its result and its effects
  mutex,    \* SpecLock: ACLService.mutex, who holds it and who is blocked on it
  sweeper   \* SpecLock: the position of the cache cleanup goroutine

vars == <<acl, call, store, cache, now, res, mut, hist, api, ff, mw, mutex, sweeper>>

sysVars == <<store, cache, now, res, mut, hist>>

-----------------------------------------------------------------------------
(* Bounds and program constants *)

\* number of concurrent GetMergedACL callers
NumRes == 2

\* number of concurrent mutation callers
NumMut == 1

\* last tick of the clock
MaxTime == 2

\* ACLService.ttl in ticks (a parameter of NewACLService)
TTL == 1

\* number of store writes after which no further mutation starts
MaxWrites == 1

\* SpecApi: the number of requests served
MaxRequests == 2

-----------------------------------------------------------------------------
(* Permission model: types.go *)

ActionRead == "read"

ActionWrite == "write"

ActionReadWrite == "readwrite"

ActionBlocking == "blocking"

\* a map is a function whose DOMAIN is the set of keys present
EmptyMap == [k \in {} |-> "x"]

Has(m, k) == k \in DOMAIN m

\* "table#column"
Key(table, column) == <<table, column>>

\* a plausible slip: write is granted by a stored "read" as well
hasPermission_ReadGrantsWrite(permission, action) ==
  CASE action = "read"     -> permission = "read" \/ permission = "readwrite"
    [] action = "write"    -> permission = "read" \/ permission = "readwrite"
    [] action = "blocking" -> FALSE
    [] OTHER               -> FALSE

hasPermission(permission, action) ==
  CASE action = "read"     -> permission = "read" \/ permission = "readwrite"
    [] action = "write"    -> permission = "readwrite"
    [] action = "blocking" -> FALSE
    [] OTHER               -> FALSE

\* a plausible slip: the blocking check looks at the exact key only
CanAccess_BlockExactOnly(m, table, column, action) ==
  LET exactKey    == Key(table, column)
      wildcardKey == Key(table, "*")
      globalKey   == Key("*", "*")
  IN  IF Has(m, exactKey) /\ m[exactKey] = "blocking" THEN FALSE
      ELSE IF Has(m, exactKey) THEN hasPermission(m[exactKey], action)
      ELSE IF Has(m, wildcardKey) THEN hasPermission(m[wildcardKey], action)
      ELSE IF Has(m, globalKey) THEN hasPermission(m[globalKey], action)
      ELSE FALSE

\* a plausible slip: the positive check consults table#* before table#column
CanAccess_WildcardFirst(m, table, column, action) ==
  LET exactKey    == Key(table, column)
      wildcardKey == Key(table, "*")
      globalKey   == Key("*", "*")
  IN  IF Has(m, exactKey) /\ m[exactKey] = "blocking" THEN FALSE
      ELSE IF Has(m, wildcardKey) /\ m[wildcardKey] = "blocking" THEN FALSE
      ELSE IF Has(m, globalKey) /\ m[globalKey] = "blocking" THEN FALSE
      ELSE IF Has(m, wildcardKey) THEN hasPermission(m[wildcardKey], action)
      ELSE IF Has(m, exactKey) THEN hasPermission(m[exactKey], action)
      ELSE IF Has(m, globalKey) THEN hasPermission(m[globalKey], action)
      ELSE FALSE

\* a plausible slip: the global tier is never consulted by the positive check
CanAccess_NoGlobalTier(m, table, column, action) ==
  LET exactKey    == Key(table, column)
      wildcardKey == Key(table, "*")
      globalKey   == Key("*", "*")
  IN  IF Has(m, exactKey) /\ m[exactKey] = "blocking" THEN FALSE
      ELSE IF Has(m, wildcardKey) /\ m[wildcardKey] = "blocking" THEN FALSE
      ELSE IF Has(m, globalKey) /\ m[globalKey] = "blocking" THEN FALSE
      ELSE IF Has(m, exactKey) THEN hasPermission(m[exactKey], action)
      ELSE IF Has(m, wildcardKey) THEN hasPermission(m[wildcardKey], action)
      ELSE FALSE

CanAccess(m, table, column, action) ==
  LET exactKey    == Key(table, column)
      wildcardKey == Key(table, "*")
      globalKey   == Key("*", "*")
  IN  IF Has(m, exactKey) /\ m[exactKey] = "blocking" THEN FALSE
      ELSE IF Has(m, wildcardKey) /\ m[wildcardKey] = "blocking" THEN FALSE
      ELSE IF Has(m, globalKey) /\ m[globalKey] = "blocking" THEN FALSE
      ELSE IF Has(m, exactKey) THEN hasPermission(m[exactKey], action)
      ELSE IF Has(m, wildcardKey) THEN hasPermission(m[wildcardKey], action)
      ELSE IF Has(m, globalKey) THEN hasPermission(m[globalKey], action)
      ELSE FALSE

\* a plausible slip: the global key is not looked up
AnyPermission_NoGlobal(permissions, table) ==
  \E key \in DOMAIN permissions : key[1] = table

\* HasAnyPermission's scan of the merged map: a key "table#...", or the key "*#*"
AnyPermission(permissions, table) ==
  \/ \E key \in DOMAIN permissions : key[1] = table
  \/ Has(permissions, Key("*", "*"))

-----------------------------------------------------------------------------
(* Go maps as functions; DOMAIN is the set of keys present *)

MapPut(m, k, v) == [x \in (DOMAIN m) \cup {k} |-> IF x = k THEN v ELSE m[x]]

MapDelete(m, k) == [x \in (DOMAIN m) \ {k} |-> m[x]]

\* for key, value := range top { base[key] = value }
Overlay(base, top) ==
  [x \in (DOMAIN base) \cup (DOMAIN top) |-> IF x \in DOMAIN top THEN top[x] ELSE base[x]]

Range(s) == {s[i] : i \in DOMAIN s}

Orderings(S) ==
  {s \in [1..Cardinality(S) -> S] : \A x \in S : \E i \in 1..Cardinality(S) : s[i] = x}

-----------------------------------------------------------------------------
(* Principal names *)

GroupPrefix == "group:"

UserA == <<"a@x.com">>

UserB == <<"b@x.com">>

GroupAnalyst == <<GroupPrefix, "analyst">>

GroupOps == <<GroupPrefix, "ops">>

GroupGone == <<GroupPrefix, "gone">>

GroupAdmin == <<GroupPrefix, "admin">>

Admin == <<"admin">>

Root == <<"root@x.com">>

\* len(name) > 6 && name[:6] == "group:"
isGroupName(name) == Len(name) > 1 /\ name[1] = GroupPrefix

\* if !isGroupName(groupName) { groupName = "group:" + groupName }
NormalizeGroupName(groupName) ==
  IF ~isGroupName(groupName) THEN <<GroupPrefix>> \o groupName ELSE groupName

-----------------------------------------------------------------------------
(* DynamoRepository: repository.go.  The table is a function from the     *)
(* PrincipalID of each stored item to the item.  An item has the          *)
(* attributes PrincipalID, Groups, Permissions and FieldFilters (empty    *)
(* when the item has no such attribute).                                   *)

\* the ACLRecord values this code builds: no literal sets FieldFilters
ACLRecord(principalID, groups, permissions) ==
  [PrincipalID |-> principalID, Groups |-> groups, Permissions |-> permissions,
   FieldFilters |-> EmptyMap]

\* an item as it may be provisioned in the table, field filters included
Item(principalID, groups, permissions, fieldFilters) ==
  [PrincipalID |-> principalID, Groups |-> groups, Permissions |-> permissions,
   FieldFilters |-> fieldFilters]

\* writes PrincipalID, Groups and Permissions; no FieldFilters attribute
marshalACLRecord(record) ==
  Item(record.PrincipalID, record.Groups, record.Permissions, EmptyMap)

\* reads PrincipalID, Groups and Permissions; FieldFilters stays unset
unmarshalACLRecord(item) ==
  ACLRecord(item.PrincipalID, item.Groups, item.Permissions)

\* result.Item == nil gives an empty record, not an error
GetUserRecord(st, email) ==
  IF email \in DOMAIN st THEN unmarshalACLRecord(st[email])
  ELSE ACLRecord(email, <<>>, EmptyMap)

\* The records BatchGetItem can return: one per requested key that is stored,
\* in an order DynamoDB does not specify.  (No input here repeats a key.)
BatchGetGroupRecords(st, groupNames) ==
  IF Len(groupNames) = 0 THEN {<<>>}
  ELSE Orderings({unmarshalACLRecord(st[g]) : g \in Range(groupNames) \cap DOMAIN st})

\* PutUserRecord and PutGroupRecord are the same PutItem
PutRecord(st, record) == MapPut(st, record.PrincipalID, marshalACLRecord(record))

DeleteRecord(st, principalID) == MapDelete(st, principalID)

-----------------------------------------------------------------------------
(* ACLService: service.go *)

RECURSIVE MergeGroups(_, _)
\* for _, groupRecord := range groupRecords { for key, value := ... }
MergeGroups(groupRecords, merged) ==
  IF groupRecords = <<>> THEN merged
  ELSE MergeGroups(Tail(groupRecords), Overlay(merged, Head(groupRecords).Permissions))

\* a plausible slip: the user's map is laid down first and the groups over it
MergePermissions_GroupsWin(userRecord, groupRecords) ==
  MergeGroups(groupRecords, userRecord.Permissions)

\* fetchAndMergeACL, step 3
MergePermissions(userRecord, groupRecords) ==
  Overlay(MergeGroups(groupRecords, EmptyMap), userRecord.Permissions)

\* the MergedACL values this code builds: no literal sets FieldFilters
MergedACL(email, permissions, groups) ==
  [UserEmail |-> email, Permissions |-> permissions, Groups |-> groups,
   FieldFilters |-> EmptyMap]

\* a plausible slip: an entry counts as expired at its expiry instant
IsExpired_AtExpiry(entry, t) == t >= entry.ExpiresAt

\* time.Now().After(c.ExpiresAt)
IsExpired(entry, t) == t > entry.ExpiresAt

NewCacheEntry(aclRecord, ttl, t) == [ACL |-> aclRecord, ExpiresAt |-> t + ttl]

\* a plausible slip: the single-user invalidation clears the whole map
InvalidateCache_ClearsAll(c, email) == EmptyMap

\* delete(s.cache, email)
InvalidateCache(c, email) == MapDelete(c, email)

\* s.cache = make(map[string]*CacheEntry)
InvalidateAllCache(c) == EmptyMap

\* a plausible slip: the sweep also removes an entry at its expiry instant
CleanExpiredEntries_AtExpiry(c, t) ==
  [e \in {x \in DOMAIN c : ~(t >= c[x].ExpiresAt)} |-> c[e]]

\* cleanExpiredEntries at time t: if now.After(entry.ExpiresAt) { delete(...) }
CleanExpiredEntries(c, t) ==
  [e \in {x \in DOMAIN c : ~(t > c[x].ExpiresAt)} |-> c[e]]

-----------------------------------------------------------------------------
(* SpecAccess: the pure functions of types.go applied to drawn inputs *)

LoanCashFlow == "LoanCashFlow"

AccessKeys ==
  {Key(LoanCashFlow, "Balance"), Key(LoanCashFlow, "Status"),
   Key(LoanCashFlow, "*"), Key("*", "*")}

\* the four PermissionAction values and one string that is none of them
StoredValues == {"read", "write", "readwrite", "blocking", "delete"}

RequestActions == {"read", "write", "readwrite", "blocking", "", "delete"}

RequestColumns == {"Balance", "Status", "*"}

Absent == "-"

PermissionMaps ==
  {[k \in {x \in AccessKeys : f[x] # Absent} |-> f[k]] :
     f \in [AccessKeys -> StoredValues \cup {Absent}]}

NoCall == [fn |-> "none"]

NoApi == [op |-> "none", n |-> 0]

NoFilter == [Field |-> "", IncludeList |-> <<>>, ExcludeList |-> <<>>, FilterType |-> ""]

NoMw == [op |-> "none"]

IdleRes ==
  [pc |-> "idle", email |-> <<>>, hit |-> FALSE, stale |-> FALSE,
   calls |-> <<>>, err |-> FALSE,
   userRecord |-> ACLRecord(<<>>, <<>>, EmptyMap), groupRecords |-> <<>>,
   merged |-> MergedACL(<<>>, EmptyMap, <<>>),
   hVer |-> 0, hStartInv |-> 0]

IdleMut ==
  [pc |-> "idle", op |-> "none", id |-> <<>>, groups |-> <<>>,
   permissions |-> EmptyMap, record |-> ACLRecord(<<>>, <<>>, EmptyMap),
   err |-> FALSE, hWrite |-> 0]

\* sync.RWMutex, unlocked: nobody holds it, nobody is blocked in RLock or Lock
FreeMutex == [readers |-> {}, writer |-> {}, rwait |-> {}, wwait |-> {}]

\* the service as NewACLService leaves it, over a given table
ServiceInit(table) ==
  /\ mutex = FreeMutex
  /\ sweeper = "sleep"
  /\ store = table
  /\ cache = EmptyMap
  /\ now = 0
  /\ res = [r \in 1..NumRes |-> IdleRes]
  /\ mut = [m \in 1..NumMut |-> IdleMut]

InitAccess ==
  /\ acl \in PermissionMaps
  /\ call = NoCall
  /\ ServiceInit(EmptyMap)
  /\ hist = [wseq |-> 0, invSeq |-> EmptyMap, entry |-> EmptyMap]
  /\ api = NoApi
  /\ ff = NoFilter
  /\ mw = NoMw

CanAccessCall(table, column, action) ==
  /\ call' = [fn |-> "CanAccess", table |-> table, column |-> column,
              action |-> action, result |-> CanAccess(acl, table, column, action)]
  /\ UNCHANGED <<mutex, sweeper, ff, mw, acl, sysVars, api>>

HasPermissionCall(permission, action) ==
  /\ call' = [fn |-> "hasPermission", permission |-> permission,
              action |-> action, result |-> hasPermission(permission, action)]
  /\ UNCHANGED <<mutex, sweeper, ff, mw, acl, sysVars, api>>

AnyPermissionCall(table) ==
  /\ call' = [fn |-> "AnyPermission", table |-> table,
              result |-> AnyPermission(acl, table)]
  /\ UNCHANGED <<mutex, sweeper, ff, mw, acl, sysVars, api>>

NextAccess ==
  \/ \E c \in RequestColumns, a \in RequestActions : CanAccessCall(LoanCashFlow, c, a)
  \/ \E p \in StoredValues, a \in RequestActions : HasPermissionCall(p, a)
  \/ \E t \in {LoanCashFlow, "LoanCache"} : AnyPermissionCall(t)

SpecAccess == InitAccess /\ [][NextAccess]_vars

\* the three keys CanAccess(table, column, _) may consult
ApplicableKeys(table, column) == {Key(table, column), Key(table, "*"), Key("*", "*")}

BlockedAt(m, k) == Has(m, k) /\ m[k] = "blocking"

\* group:analyst grants LoanCashFlow#* = read, the user blocks LoanCashFlow#Balance
ScenarioACL ==
  MergePermissions(
    ACLRecord(UserA, <<GroupAnalyst>>, [k \in {Key(LoanCashFlow, "Balance")} |-> "blocking"]),
    <<ACLRecord(GroupAnalyst, <<>>, [k \in {Key(LoanCashFlow, "*")} |-> "read"])>>)

\* C1: a blocking value at any of the three applicable keys makes CanAccess
\* false whatever the other keys hold; in the analyst scenario read on Balance
\* is denied and read on Status is allowed.
C1_BlockingDominance ==
  call.fn = "CanAccess" =>
    /\ (\E k \in ApplicableKeys(call.table, call.column) : BlockedAt(acl, k))
         => call.result = FALSE
    /\ (acl = ScenarioACL /\ call.action = "read" /\ call.column = "Balance")
         => call.result = FALSE
    /\ (acl = ScenarioACL /\ call.action = "read" /\ call.column = "Status")
         => call.result = TRUE

\* C1 witness: table#* blocks while the more specific table#column grants readwrite
C1_Witness ==
  /\ call.fn = "CanAccess" /\ call.column = "Balance" /\ call.action = "read"
  /\ Has(acl, Key(LoanCashFlow, "Balance")) /\ acl[Key(LoanCashFlow, "Balance")] = "readwrite"
  /\ BlockedAt(acl, Key(LoanCashFlow, "*"))
  /\ call.result = FALSE

\* C2: with no applicable key blocking, CanAccess is the action implication of
\* the value at the most specific key present (table#column, table#*, *#*),
\* and deny when none is present.
C2_PositiveTierOrder ==
  (call.fn = "CanAccess"
     /\ \A k \in ApplicableKeys(call.table, call.column) : ~BlockedAt(acl, k)) =>
    LET exactKey    == Key(call.table, call.column)
        wildcardKey == Key(call.table, "*")
        globalKey   == Key("*", "*")
    IN  call.result =
          (IF Has(acl, exactKey) THEN hasPermission(acl[exactKey], call.action)
           ELSE IF Has(acl, wildcardKey) THEN hasPermission(acl[wildcardKey], call.action)
           ELSE IF Has(acl, globalKey) THEN hasPermission(acl[globalKey], call.action)
           ELSE FALSE)

\* C2 witness: table#column = read denies write although table#* = readwrite
C2_Witness ==
  /\ call.fn = "CanAccess" /\ call.column = "Balance" /\ call.action = "write"
  /\ Has(acl, Key(LoanCashFlow, "Balance")) /\ acl[Key(LoanCashFlow, "Balance")] = "read"
  /\ Has(acl, Key(LoanCashFlow, "*")) /\ acl[Key(LoanCashFlow, "*")] = "readwrite"
  /\ call.result = FALSE

\* C3 as stated: whenever table#column is present, CanAccess is decided by the
\* value at table#column alone (a less specific blocking does not override it).
C3_Original ==
  (call.fn = "CanAccess" /\ Has(acl, Key(call.table, call.column))) =>
    call.result = hasPermission(acl[Key(call.table, call.column)], call.action)

\* C3 amended: whenever table#column is present, CanAccess is false if table#*
\* or *#* is blocking, and otherwise is decided by the value at table#column
\* alone, whatever positive values table#* and *#* hold.
C3_SpecificityOrder ==
  (call.fn = "CanAccess" /\ Has(acl, Key(call.table, call.column))) =>
    call.result =
      (IF BlockedAt(acl, Key(call.table, "*")) \/ BlockedAt(acl, Key("*", "*"))
       THEN FALSE
       ELSE hasPermission(acl[Key(call.table, call.column)], call.action))

\* C3 witness: table#column = readwrite decides over table#* = read and *#* = read
C3_Witness ==
  /\ call.fn = "CanAccess" /\ call.column = "Status" /\ call.action = "write"
  /\ Has(acl, Key(LoanCashFlow, "Status")) /\ acl[Key(LoanCashFlow, "Status")] = "readwrite"
  /\ Has(acl, Key(LoanCashFlow, "*")) /\ acl[Key(LoanCashFlow, "*")] = "read"
  /\ Has(acl, Key("*", "*")) /\ acl[Key("*", "*")] = "read"
  /\ call.result = TRUE

\* C4: readwrite allows read and write; read allows read and denies write;
\* blocking allows nothing; a request other than read or write is denied for
\* every stored value; with no applicable key present both are denied.
C4_ActionImplication ==
  /\ call.fn = "hasPermission" =>
       /\ (call.permission = "readwrite" /\ call.action \in {"read", "write"})
            => call.result = TRUE
       /\ call.permission = "read" => (call.result <=> call.action = "read")
       /\ call.permission = "blocking" => call.result = FALSE
       /\ call.action \notin {"read", "write"} => call.result = FALSE
  /\ (call.fn = "CanAccess"
        /\ \A k \in ApplicableKeys(call.table, call.column) : ~Has(acl, k))
       => call.result = FALSE

\* C4 witness: a stored read was asked for write and denied
C4_Witness ==
  /\ call.fn = "hasPermission" /\ call.permission = "read" /\ call.action = "write"
  /\ call.result = FALSE

-----------------------------------------------------------------------------
(* Spec: the service under concurrent callers.  Each step is one cache      *)
(* critical section (held under s.mutex) or one repository call.            *)

Map1(k, v) == [x \in {k} |-> v]

Map2(k1, v1, k2, v2) == [x \in {k1, k2} |-> IF x = k1 THEN v1 ELSE v2]

KAll == Key(LoanCashFlow, "*")

KBalance == Key(LoanCashFlow, "Balance")

\* user a@x.com grants itself what group:analyst blocks; two of its groups
\* disagree on LoanCashFlow#*; group:gone has no record
TableA ==
  LET recs == {ACLRecord(UserA, <<GroupAnalyst, GroupOps, GroupGone>>, Map1(KBalance, "read")),
               ACLRecord(UserB, <<GroupAnalyst>>, EmptyMap),
               ACLRecord(GroupAnalyst, <<>>, Map2(KAll, "read", KBalance, "blocking")),
               ACLRecord(GroupOps, <<>>, Map1(KAll, "readwrite"))}
  IN  [p \in {r.PrincipalID : r \in recs} |-> CHOOSE r \in recs : r.PrincipalID = p]

\* the analyst scenario; b@x.com has no record
TableB ==
  LET recs == {ACLRecord(UserA, <<GroupAnalyst>>, Map1(KBalance, "blocking")),
               ACLRecord(GroupAnalyst, <<>>, Map1(KAll, "read"))}
  IN  [p \in {r.PrincipalID : r \in recs} |-> CHOOSE r \in recs : r.PrincipalID = p]

InitTables == {TableA}

\* the emails GetMergedACL is called with
ResolveEmails == {UserA, UserB}

\* the principal arguments of the user mutations: a user, and a group's id
MutUserIds == {UserA, GroupAnalyst}

\* the name arguments of the group mutations, bare and already prefixed
MutGroupNames == {<<"analyst">>, GroupAnalyst}

MutGroups == {<<GroupOps>>, <<Admin>>}

MutPermissions == {Map1(KAll, "readwrite")}

UserOps == {"CreateUser", "UpdateUserGroups", "UpdateUserPermissions", "DeleteUser"}

GroupOpsSet == {"CreateGroup", "UpdateGroupPermissions", "DeleteGroup"}

ResInFlight(r) == res[r].pc \in {"getUser", "getGroups", "install"}

MutInFlight(m) == mut[m].pc \in {"get", "put", "del", "inv"}

Max(a, b) == IF a >= b THEN a ELSE b

Init ==
  /\ acl = EmptyMap
  /\ call = NoCall
  /\ \E table \in InitTables : ServiceInit(table)
  /\ hist = [wseq |-> 0, invSeq |-> [e \in ResolveEmails |-> 0], entry |-> EmptyMap]
  /\ api = NoApi
  /\ ff = NoFilter
  /\ mw = NoMw

(* GetMergedACL, lines 35-45: the read-locked cache check *)
ResCheck(r, email) ==
  /\ res[r].pc = "idle"
  /\ LET exists == email \in DOMAIN cache
         base == [IdleRes EXCEPT !.email = email, !.hStartInv = hist.invSeq[email]]
     IN  IF exists /\ ~IsExpired(cache[email], now)
         THEN res' = [res EXCEPT ![r] =
                [base EXCEPT !.pc = "done", !.hit = TRUE,
                             !.merged = MergedACL(email, cache[email].ACL.Permissions,
                                                  cache[email].ACL.Groups),
                             !.hVer = hist.entry[email]]]
         ELSE res' = [res EXCEPT ![r] =
                [base EXCEPT !.pc = "getUser", !.stale = exists]]
  /\ UNCHANGED <<mutex, sweeper, ff, mw, acl, call, store, cache, now, mut, hist, api>>

(* fetchAndMergeACL, lines 69-72 *)
ResGetUser(r) ==
  /\ res[r].pc = "getUser"
  /\ \E ok \in BOOLEAN :
       res' = [res EXCEPT ![r] =
         IF ok
         THEN [@ EXCEPT !.pc = "getGroups", !.calls = Append(@, "GetUserRecord"),
                        !.userRecord = GetUserRecord(store, res[r].email)]
         ELSE [@ EXCEPT !.pc = "done", !.calls = Append(@, "GetUserRecord"),
                        !.err = TRUE]]
  /\ UNCHANGED <<mutex, sweeper, ff, mw, acl, call, store, cache, now, mut, hist, api>>

(* fetchAndMergeACL, lines 75-100 *)
ResBatchGet(r) ==
  /\ res[r].pc = "getGroups"
  /\ \/ \E recs \in BatchGetGroupRecords(store, res[r].userRecord.Groups) :
          res' = [res EXCEPT ![r] =
            [@ EXCEPT !.pc = "install", !.calls = Append(@, "BatchGetGroupRecords"),
                      !.groupRecords = recs,
                      !.merged = MergedACL(res[r].email,
                                           MergePermissions(res[r].userRecord, recs),
                                           res[r].userRecord.Groups),
                      !.hVer = hist.wseq]]
     \/ /\ Len(res[r].userRecord.Groups) > 0
        /\ res' = [res EXCEPT ![r] =
             [@ EXCEPT !.pc = "done", !.calls = Append(@, "BatchGetGroupRecords"),
                       !.err = TRUE]]
  /\ UNCHANGED <<mutex, sweeper, ff, mw, acl, call, store, cache, now, mut, hist, api>>

(* GetMergedACL, lines 54-63: the write-locked install *)
ResInstall(r) ==
  /\ res[r].pc = "install"
  /\ cache' = MapPut(cache, res[r].email,
                NewCacheEntry(ACLRecord(res[r].email, res[r].merged.Groups,
                                        res[r].merged.Permissions), TTL, now))
  /\ hist' = [hist EXCEPT !.entry = MapPut(@, res[r].email, res[r].hVer)]
  /\ res' = [res EXCEPT ![r].pc = "done"]
  /\ UNCHANGED <<mutex, sweeper, ff, mw, acl, call, store, now, mut, api>>

(* the caller takes the result; the goroutine is free for the next call *)
ResReturn(r) ==
  /\ res[r].pc = "done"
  /\ res' = [res EXCEPT ![r] = IdleRes]
  /\ UNCHANGED <<mutex, sweeper, ff, mw, acl, call, store, cache, now, mut, hist, api>>

\* a mutation call begins
BeginMutation(m, op, id, groups, permissions, pc, record) ==
  /\ mut[m].pc = "idle"
  /\ hist.wseq < MaxWrites
  /\ mut' = [mut EXCEPT ![m] =
       [IdleMut EXCEPT !.pc = pc, !.op = op, !.id = id, !.groups = groups,
                       !.permissions = permissions, !.record = record]]
  /\ UNCHANGED <<mutex, sweeper, ff, mw, acl, call, store, cache, now, res, hist, api>>

(* CreateUser, lines 141-147 *)
CreateUser(m, email, groups, permissions) ==
  BeginMutation(m, "CreateUser", email, groups, permissions, "put",
                ACLRecord(email, groups, permissions))

(* CreateGroup, lines 160-170 *)
CreateGroup(m, groupName, permissions) ==
  BeginMutation(m, "CreateGroup", NormalizeGroupName(groupName), <<>>, permissions, "put",
                ACLRecord(NormalizeGroupName(groupName), <<>>, permissions))

(* UpdateUserGroups, line 183 *)
UpdateUserGroups(m, email, groups) ==
  BeginMutation(m, "UpdateUserGroups", email, groups, EmptyMap, "get",
                ACLRecord(<<>>, <<>>, EmptyMap))

(* UpdateUserPermissions, line 203 *)
UpdateUserPermissions(m, email, permissions) ==
  BeginMutation(m, "UpdateUserPermissions", email, <<>>, permissions, "get",
                ACLRecord(<<>>, <<>>, EmptyMap))

(* UpdateGroupPermissions, lines 223-226 *)
UpdateGroupPermissions(m, groupName, permissions) ==
  BeginMutation(m, "UpdateGroupPermissions", NormalizeGroupName(groupName), <<>>,
                permissions, "get", ACLRecord(<<>>, <<>>, EmptyMap))

(* DeleteUser, line 247 *)
DeleteUser(m, email) ==
  BeginMutation(m, "DeleteUser", email, <<>>, EmptyMap, "del",
                ACLRecord(<<>>, <<>>, EmptyMap))

(* DeleteGroup, lines 258-261 *)
DeleteGroup(m, groupName) ==
  BeginMutation(m, "DeleteGroup", NormalizeGroupName(groupName), <<>>, EmptyMap, "del",
                ACLRecord(<<>>, <<>>, EmptyMap))

(* Update*: GetUserRecord, then the field is replaced (lines 185-191, 205-211, 229-235) *)
MutGet(m) ==
  /\ mut[m].pc = "get"
  /\ \E ok \in BOOLEAN :
       mut' = [mut EXCEPT ![m] =
         IF ok
         THEN LET cur == GetUserRecord(store, mut[m].id)
              IN  [@ EXCEPT !.pc = "put",
                            !.record = IF mut[m].op = "UpdateUserGroups"
                                       THEN [cur EXCEPT !.Groups = mut[m].groups]
                                       ELSE [cur EXCEPT !.Permissions = mut[m].permissions]]
         ELSE [@ EXCEPT !.pc = "done", !.err = TRUE]]
  /\ UNCHANGED <<mutex, sweeper, ff, mw, acl, call, store, cache, now, res, hist, api>>

(* PutUserRecord / PutGroupRecord *)
MutPut(m) ==
  /\ mut[m].pc = "put"
  /\ \/ /\ store' = PutRecord(store, mut[m].record)
        /\ hist' = [hist EXCEPT !.wseq = @ + 1]
        /\ mut' = [mut EXCEPT ![m].pc = "inv", ![m].hWrite = hist.wseq + 1]
     \/ /\ mut' = [mut EXCEPT ![m].pc = "done", ![m].err = TRUE]
        /\ UNCHANGED <<store, hist>>
  /\ UNCHANGED <<mutex, sweeper, ff, mw, acl, call, cache, now, res, api>>

(* DeleteRecord *)
MutDelete(m) ==
  /\ mut[m].pc = "del"
  /\ \/ /\ store' = DeleteRecord(store, mut[m].id)
        /\ hist' = [hist EXCEPT !.wseq = @ + 1]
        /\ mut' = [mut EXCEPT ![m].pc = "inv", ![m].hWrite = hist.wseq + 1]
     \/ /\ mut' = [mut EXCEPT ![m].pc = "done", ![m].err = TRUE]
        /\ UNCHANGED <<store, hist>>
  /\ UNCHANGED <<mutex, sweeper, ff, mw, acl, call, cache, now, res, api>>

(* s.InvalidateCache(email) after a user mutation's write *)
MutInvalidate(m) ==
  /\ mut[m].pc = "inv"
  /\ mut[m].op \in UserOps
  /\ cache' = InvalidateCache(cache, mut[m].id)
  /\ hist' = [hist EXCEPT
       !.entry = MapDelete(@, mut[m].id),
       !.invSeq = [e \in ResolveEmails |->
                     IF e = mut[m].id THEN Max(@[e], mut[m].hWrite) ELSE @[e]]]
  /\ mut' = [mut EXCEPT ![m].pc = "done"]
  /\ UNCHANGED <<mutex, sweeper, ff, mw, acl, call, store, now, res, api>>

(* s.InvalidateAllCache() after a group mutation's write *)
MutInvalidateAll(m) ==
  /\ mut[m].pc = "inv"
  /\ mut[m].op \in GroupOpsSet
  /\ cache' = InvalidateAllCache(cache)
  /\ hist' = [hist EXCEPT
       !.entry = EmptyMap,
       !.invSeq = [e \in ResolveEmails |-> Max(@[e], mut[m].hWrite)]]
  /\ mut' = [mut EXCEPT ![m].pc = "done"]
  /\ UNCHANGED <<mutex, sweeper, ff, mw, acl, call, store, now, res, api>>

MutReturn(m) ==
  /\ mut[m].pc = "done"
  /\ mut' = [mut EXCEPT ![m] = IdleMut]
  /\ UNCHANGED <<mutex, sweeper, ff, mw, acl, call, store, cache, now, res, hist, api>>

(* one pass of the ticker loop of startCacheCleanup *)
Sweep ==
  /\ cache' = CleanExpiredEntries(cache, now)
  /\ cache' # cache
  /\ hist' = [hist EXCEPT !.entry = [e \in DOMAIN cache' |-> @[e]]]
  /\ UNCHANGED <<mutex, sweeper, ff, mw, acl, call, store, now, res, mut, api>>

Tick ==
  /\ now < MaxTime
  /\ now' = now + 1
  /\ UNCHANGED <<mutex, sweeper, ff, mw, acl, call, store, cache, res, mut, hist, api>>

\* a finished call returns to its caller before anything else happens: the
\* "done" position only exposes the call's result to the properties
Returning ==
  \/ \E r \in 1..NumRes : res[r].pc = "done"
  \/ \E m \in 1..NumMut : mut[m].pc = "done"

Next ==
  \/ \E r \in 1..NumRes : ResReturn(r)
  \/ \E m \in 1..NumMut : MutReturn(m)
  \/ /\ ~Returning
     /\ \E r \in 1..NumRes, e \in ResolveEmails : ResCheck(r, e)
  \/ /\ ~Returning
     /\ \E r \in 1..NumRes : ResGetUser(r)
  \/ /\ ~Returning
     /\ \E r \in 1..NumRes : ResBatchGet(r)
  \/ /\ ~Returning
     /\ \E r \in 1..NumRes : ResInstall(r)
  \/ /\ ~Returning
     /\ \E m \in 1..NumMut, e \in MutUserIds, g \in MutGroups, p \in MutPermissions : CreateUser(m, e, g, p)
  \/ /\ ~Returning
     /\ \E m \in 1..NumMut, n \in MutGroupNames, p \in MutPermissions : CreateGroup(m, n, p)
  \/ /\ ~Returning
     /\ \E m \in 1..NumMut, e \in MutUserIds, g \in MutGroups : UpdateUserGroups(m, e, g)
  \/ /\ ~Returning
     /\ \E m \in 1..NumMut, e \in MutUserIds, p \in MutPermissions : UpdateUserPermissions(m, e, p)
  \/ /\ ~Returning
     /\ \E m \in 1..NumMut, n \in MutGroupNames, p \in MutPermissions : UpdateGroupPermissions(m, n, p)
  \/ /\ ~Returning
     /\ \E m \in 1..NumMut, e \in MutUserIds : DeleteUser(m, e)
  \/ /\ ~Returning
     /\ \E m \in 1..NumMut, n \in MutGroupNames : DeleteGroup(m, n)
  \/ /\ ~Returning
     /\ \E m \in 1..NumMut : MutGet(m)
  \/ /\ ~Returning
     /\ \E m \in 1..NumMut : MutPut(m)
  \/ /\ ~Returning
     /\ \E m \in 1..NumMut : MutDelete(m)
  \/ /\ ~Returning
     /\ \E m \in 1..NumMut : MutInvalidate(m)
  \/ /\ ~Returning
     /\ \E m \in 1..NumMut : MutInvalidateAll(m)
  \/ /\ ~Returning
     /\ Sweep
  \/ /\ ~Returning
     /\ Tick

Spec == Init /\ [][Next]_vars

TypeOK ==
  /\ now \in 0..MaxTime
  /\ DOMAIN cache \subseteq ResolveEmails \cup MutUserIds
  /\ DOMAIN hist.entry = DOMAIN cache
  /\ hist.wseq \in 0..MaxWrites

\* SpecSeq: the same service with one caller at a time: a call starts only
\* when no other call is in flight (the clock and the sweep still run freely)
Busy ==
  \/ \E r \in 1..NumRes : ResInFlight(r)
  \/ \E m \in 1..NumMut : MutInFlight(m)

\* while a call is in flight no other call starts
OneAtATime ==
  Busy => /\ \A r \in 1..NumRes : res[r].pc = "idle" => res'[r].pc = "idle"
          /\ \A m \in 1..NumMut : mut[m].pc = "idle" => mut'[m].pc = "idle"

NextSeq ==
  \/ \E r \in 1..NumRes : ResReturn(r)
  \/ \E m \in 1..NumMut : MutReturn(m)
  \/ /\ ~Returning
     /\ \E r \in 1..NumRes, e \in ResolveEmails : ResCheck(r, e)
     /\ OneAtATime
  \/ /\ ~Returning
     /\ \E r \in 1..NumRes : ResGetUser(r)
     /\ OneAtATime
  \/ /\ ~Returning
     /\ \E r \in 1..NumRes : ResBatchGet(r)
     /\ OneAtATime
  \/ /\ ~Returning
     /\ \E r \in 1..NumRes : ResInstall(r)
     /\ OneAtATime
  \/ /\ ~Returning
     /\ \E m \in 1..NumMut, e \in MutUserIds, g \in MutGroups, p \in MutPermissions : CreateUser(m, e, g, p)
     /\ OneAtATime
  \/ /\ ~Returning
     /\ \E m \in 1..NumMut, n \in MutGroupNames, p \in MutPermissions : CreateGroup(m, n, p)
     /\ OneAtATime
  \/ /\ ~Returning
     /\ \E m \in 1..NumMut, e \in MutUserIds, g \in MutGroups : UpdateUserGroups(m, e, g)
     /\ OneAtATime
  \/ /\ ~Returning
     /\ \E m \in 1..NumMut, e \in MutUserIds, p \in MutPermissions : UpdateUserPermissions(m, e, p)
     /\ OneAtATime
  \/ /\ ~Returning
     /\ \E m \in 1..NumMut, n \in MutGroupNames, p \in MutPermissions : UpdateGroupPermissions(m, n, p)
     /\ OneAtATime
  \/ /\ ~Returning
     /\ \E m \in 1..NumMut, e \in MutUserIds : DeleteUser(m, e)
     /\ OneAtATime
  \/ /\ ~Returning
     /\ \E m \in 1..NumMut, n \in MutGroupNames : DeleteGroup(m, n)
     /\ OneAtATime
  \/ /\ ~Returning
     /\ \E m \in 1..NumMut : MutGet(m)
     /\ OneAtATime
  \/ /\ ~Returning
     /\ \E m \in 1..NumMut : MutPut(m)
     /\ OneAtATime
  \/ /\ ~Returning
     /\ \E m \in 1..NumMut : MutDelete(m)
     /\ OneAtATime
  \/ /\ ~Returning
     /\ \E m \in 1..NumMut : MutInvalidate(m)
     /\ OneAtATime
  \/ /\ ~Returning
     /\ \E m \in 1..NumMut : MutInvalidateAll(m)
     /\ OneAtATime
  \/ /\ ~Returning
     /\ Sweep
     /\ OneAtATime
  \/ /\ ~Returning
     /\ Tick
     /\ OneAtATime

SpecSeq == Init /\ [][NextSeq]_vars

-----------------------------------------------------------------------------
(* Properties of the service *)

\* a resolution that took the miss path and holds its merged result
Merged(r) == res[r].pc = "install" \/ (res[r].pc = "done" /\ ~res[r].hit /\ ~res[r].err)

C5_MergedOf(r) ==
  LET u  == res[r].userRecord
      gs == Range(res[r].groupRecords)
      m  == res[r].merged.Permissions
  IN  /\ DOMAIN m = (DOMAIN u.Permissions) \cup UNION {DOMAIN g.Permissions : g \in gs}
      /\ \A k \in DOMAIN u.Permissions : m[k] = u.Permissions[k]
      /\ \A k \in (DOMAIN m) \ (DOMAIN u.Permissions) :
           \E g \in gs : k \in DOMAIN g.Permissions /\ m[k] = g.Permissions[k]
      /\ res[r].merged.Groups = u.Groups

\* the batch fetch returned exactly the stored records of the referenced groups
C5_Fetched(r) ==
  (res[r].pc = "getGroups" /\ res'[r].pc = "install") =>
    Range(res'[r].groupRecords) =
      {store[g] : g \in Range(res[r].userRecord.Groups) \cap DOMAIN store}

\* C5: a cache-miss resolution merges key by key: the merged key set is the
\* union of the user's keys and the fetched group records' keys, the user's
\* value wins on every key the user defines, a group-only key holds one of the
\* groups' values, and a referenced group without a record contributes nothing.
C5_MergePrecedence ==
  [][\A r \in 1..NumRes : C5_Fetched(r) /\ (Merged(r) => C5_MergedOf(r))']_vars

\* C5 witness: a@x.com's own read on LoanCashFlow#Balance shadows group:analyst's
\* blocking, its two stored groups disagree on LoanCashFlow#*, and group:gone,
\* which it references, has no record
C5_Witness ==
  \E r \in 1..NumRes :
    /\ res[r].pc = "install"
    /\ \E i \in DOMAIN res[r].userRecord.Groups : res[r].userRecord.Groups[i] = GroupGone
    /\ Len(res[r].groupRecords) = 2
    /\ res[r].merged.Permissions[KBalance] = "read"
    /\ \E i \in DOMAIN res[r].groupRecords :
         /\ Has(res[r].groupRecords[i].Permissions, KBalance)
         /\ res[r].groupRecords[i].Permissions[KBalance] = "blocking"
    /\ res[r].merged.Permissions[KAll] = "read"

\* C6: a GetMergedACL(e) that starts after an invalidation covering e has
\* completed returns nothing that was read from the store before that
\* mutation's write.  (hStartInv is the number of the latest write whose
\* invalidation covering e was complete when the call started; hVer is the
\* number of writes done when the returned data was read.)
C6_NoStaleAfterInvalidation ==
  \A r \in 1..NumRes :
    (res[r].pc = "done" /\ ~res[r].err) => res[r].hVer >= res[r].hStartInv

C7_Check(r) ==
  (res[r].pc = "idle" /\ res'[r].pc # "idle") =>
    LET e == res'[r].email
    IN  /\ res'[r].hit <=> (e \in DOMAIN cache /\ now <= cache[e].ExpiresAt)
        /\ res'[r].hit =>
             /\ res'[r].pc = "done" /\ res'[r].calls = <<>>
             /\ res'[r].merged = MergedACL(e, cache[e].ACL.Permissions, cache[e].ACL.Groups)
        /\ ~res'[r].hit => res'[r].pc = "getUser" /\ res'[r].calls = <<>>

C7_Install(r) ==
  (res[r].pc = "install" /\ res'[r].pc = "done") =>
    /\ res[r].calls = <<"GetUserRecord", "BatchGetGroupRecords">>
    /\ res[r].email \in DOMAIN cache'
    /\ cache'[res[r].email].ExpiresAt = now + TTL
    /\ cache'[res[r].email].ACL.Permissions = res[r].merged.Permissions
    /\ cache'[res[r].email].ACL.Groups = res[r].merged.Groups

\* an entry stays as installed until an invalidation covering it, a sweep after
\* its expiry, or the install of another resolution of the same principal
C7_Kept(e) ==
  (e \in DOMAIN cache /\ (e \notin DOMAIN cache' \/ cache'[e] # cache[e])) =>
    \/ \E m \in 1..NumMut :
         /\ mut[m].pc = "inv" /\ mut'[m].pc = "done"
         /\ mut[m].op \in GroupOpsSet \/ mut[m].id = e
    \/ res' = res /\ mut' = mut /\ now > cache[e].ExpiresAt
    \/ \E r \in 1..NumRes : res[r].pc = "install" /\ res[r].email = e /\ res'[r].pc = "done"

\* C7: a resolution is a hit, with no repository call, exactly when an entry is
\* present with now <= expiresAt; otherwise (no entry, or an expired one still
\* in the map) it fetches the user record and then the groups in one batch and
\* installs an entry with expiresAt = install time + ttl; the entry stays until
\* it is invalidated, swept after expiry or replaced.
C7_CacheTTL ==
  [][/\ \A r \in 1..NumRes : C7_Check(r) /\ C7_Install(r)
     /\ \A e \in ResolveEmails : C7_Kept(e)]_vars

\* C7 witness: one call was a hit without any repository call while another
\* call found an expired entry still in the map and went on to fetch
C7_Witness ==
  \E r1, r2 \in 1..NumRes :
    /\ res[r1].pc = "done" /\ res[r1].hit /\ res[r1].calls = <<>>
    /\ res[r2].pc = "getGroups" /\ res[r2].stale
    /\ res[r2].calls = <<"GetUserRecord">>

C8_Scope(m) ==
  (mut[m].pc = "inv" /\ mut'[m].pc = "done") =>
    IF mut[m].op \in UserOps
    THEN cache' = [e \in (DOMAIN cache) \ {mut[m].id} |-> cache[e]]
    ELSE DOMAIN cache' = {}

C8_Success(m) ==
  (mut[m].pc # "done" /\ mut'[m].pc = "done" /\ ~mut'[m].err) => mut[m].pc = "inv"

\* C8: a successful CreateUser, UpdateUserGroups, UpdateUserPermissions or
\* DeleteUser for e removes exactly the entry keyed e and leaves every other
\* entry and its expiry unchanged; a successful CreateGroup,
\* UpdateGroupPermissions or DeleteGroup leaves the cache empty.
C8_InvalidationScope ==
  [][\A m \in 1..NumMut : C8_Scope(m) /\ C8_Success(m)]_vars

\* C8 witness: a user mutation of a@x.com has completed, its entry is gone and
\* b@x.com's entry is still cached
C8_Witness ==
  \E m \in 1..NumMut :
    /\ mut[m].pc = "done" /\ ~mut[m].err
    /\ mut[m].op \in UserOps /\ mut[m].id = UserA
    /\ UserA \notin DOMAIN cache
    /\ UserB \in DOMAIN cache

\* C9: with one caller at a time, every GetMergedACL returns the groups of the
\* user's stored record and the permissions merged from the current store
\* contents (in some order of the user's stored groups).
C9_NoStaleAfterChange ==
  \A r \in 1..NumRes :
    (res[r].pc = "done" /\ ~res[r].err) =>
      LET u == GetUserRecord(store, res[r].email)
      IN  /\ res[r].merged.Groups = u.Groups
          /\ res[r].merged.Permissions \in
               {MergePermissions(u, recs) : recs \in BatchGetGroupRecords(store, u.Groups)}

-----------------------------------------------------------------------------
(* SpecApi: the GraphQL ACL mutation resolvers over the same service and    *)
(* repository, one whole handler per step (one request at a time).          *)

NoUser == <<>>

NoACL == MergedACL(<<>>, EmptyMap, <<>>)

\* the records of TableA and, provisioned out of band, an administrator and
\* the record of group:admin
ApiTable ==
  LET extra == {ACLRecord(Root, <<Admin>>, EmptyMap),
                ACLRecord(GroupAdmin, <<>>, Map1(Key("*", "*"), "readwrite"))}
  IN  [p \in (DOMAIN TableA) \cup {r.PrincipalID : r \in extra} |->
         IF p \in DOMAIN TableA THEN TableA[p]
         ELSE CHOOSE r \in extra : r.PrincipalID = p]

\* the authenticated user of the request context: the administrator, an
\* ordinary user, or none
ApiCallers == {Root, UserA, NoUser}

ApiEmails == {UserB}

ApiGroupLists == {<<>>, <<GroupOps>>, <<GroupOps, Admin>>, <<GroupAdmin>>}

ApiGroupNames == {Admin, <<"ops">>, GroupAdmin}

ApiPermissionInputs == {<<>>, <<[Table |-> LoanCashFlow, Action |-> "read"]>>}

RECURSIVE convertPermissionsToACL(_)
\* key := fmt.Sprintf("%s#*", perm.Table); result[key] = perm.Action
convertPermissionsToACL(permissions) ==
  IF permissions = <<>> THEN EmptyMap
  ELSE LET n    == Len(permissions)
           perm == permissions[n]
       IN  MapPut(convertPermissionsToACL(SubSeq(permissions, 1, n - 1)),
                  Key(perm.Table, "*"), perm.Action)

\* a plausible slip: the entry holds the user's own record, before the merge
GetMergedACL_PreMerge(st, c, t, email) ==
  IF email \in DOMAIN c /\ ~IsExpired(c[email], t)
  THEN {[err |-> FALSE, cache |-> c, calls |-> <<>>,
         acl |-> MergedACL(email, c[email].ACL.Permissions, c[email].ACL.Groups)]}
  ELSE LET userRecord == GetUserRecord(st, email)
           fetched == <<"GetUserRecord", "BatchGetGroupRecords">>
       IN  {[err |-> TRUE, cache |-> c, calls |-> <<"GetUserRecord">>, acl |-> NoACL]}
           \cup {[err |-> TRUE, cache |-> c, calls |-> fetched, acl |-> NoACL] :
                   x \in IF Len(userRecord.Groups) > 0 THEN {1} ELSE {}}
           \cup {[err |-> FALSE, calls |-> fetched,
                  acl |-> MergedACL(email, MergePermissions(userRecord, recs),
                                    userRecord.Groups),
                  cache |-> MapPut(c, email, NewCacheEntry(userRecord, TTL, t))] :
                   recs \in BatchGetGroupRecords(st, userRecord.Groups)}

\* GetMergedACL run to completion at time t: its result, the cache it leaves
\* and the repository calls it made
GetMergedACL(st, c, t, email) ==
  IF email \in DOMAIN c /\ ~IsExpired(c[email], t)
  THEN {[err |-> FALSE, cache |-> c, calls |-> <<>>,
         acl |-> MergedACL(email, c[email].ACL.Permissions, c[email].ACL.Groups)]}
  ELSE LET userRecord == GetUserRecord(st, email)
           fetched == <<"GetUserRecord", "BatchGetGroupRecords">>
       IN  {[err |-> TRUE, cache |-> c, calls |-> <<"GetUserRecord">>, acl |-> NoACL]}
           \cup {[err |-> TRUE, cache |-> c, calls |-> fetched, acl |-> NoACL] :
                   x \in IF Len(userRecord.Groups) > 0 THEN {1} ELSE {}}
           \cup {[err |-> FALSE, calls |-> fetched,
                  acl |-> MergedACL(email, MergePermissions(userRecord, recs),
                                    userRecord.Groups),
                  cache |-> MapPut(c, email,
                              NewCacheEntry(ACLRecord(email, userRecord.Groups,
                                                      MergePermissions(userRecord, recs)),
                                            TTL, t))] :
                   recs \in BatchGetGroupRecords(st, userRecord.Groups)}

\* the outcomes of a write: the put fails, or it succeeds and the cache is
\* invalidated
PutAndInvalidate(st, c, record, before, put, invalidate, cacheAfter) ==
  {[err |-> TRUE, store |-> st, cache |-> c, calls |-> before \o <<put>>],
   [err |-> FALSE, store |-> PutRecord(st, record), cache |-> cacheAfter,
    calls |-> before \o <<put, invalidate>>]}

GetFailed(st, c) == [err |-> TRUE, store |-> st, cache |-> c, calls |-> <<"GetUserRecord">>]

Rejected(st, c) == [err |-> TRUE, store |-> st, cache |-> c, calls |-> <<>>]

\* rejects a groups list containing "admin"; otherwise persists the record
\* and invalidates the single cache entry
CreateUserWithFieldFilters(st, c, email, groups, permissions) ==
  IF \E i \in DOMAIN groups : groups[i] = Admin THEN {Rejected(st, c)}
  ELSE PutAndInvalidate(st, c, ACLRecord(email, groups, permissions), <<>>,
                        "PutUserRecord", "InvalidateCache", InvalidateCache(c, email))

\* normalises the name and rejects the group admin under either spelling;
\* otherwise persists the record and invalidates the whole cache
CreateGroupWithFieldFilters(st, c, groupName, permissions) ==
  IF NormalizeGroupName(groupName) = GroupAdmin THEN {Rejected(st, c)}
  ELSE PutAndInvalidate(st, c, ACLRecord(NormalizeGroupName(groupName), <<>>, permissions),
                        <<>>, "PutGroupRecord", "InvalidateAllCache", InvalidateAllCache(c))

UpdateUserGroupsCall(st, c, email, groups) ==
  {GetFailed(st, c)} \cup
  PutAndInvalidate(st, c, [GetUserRecord(st, email) EXCEPT !.Groups = groups],
                   <<"GetUserRecord">>, "PutUserRecord", "InvalidateCache",
                   InvalidateCache(c, email))

UpdateUserPermissionsCall(st, c, email, permissions) ==
  {GetFailed(st, c)} \cup
  PutAndInvalidate(st, c, [GetUserRecord(st, email) EXCEPT !.Permissions = permissions],
                   <<"GetUserRecord">>, "PutUserRecord", "InvalidateCache",
                   InvalidateCache(c, email))

UpdateGroupPermissionsCall(st, c, groupName, permissions) ==
  LET name == NormalizeGroupName(groupName)
  IN  {GetFailed(st, c)} \cup
      PutAndInvalidate(st, c, [GetUserRecord(st, name) EXCEPT !.Permissions = permissions],
                       <<"GetUserRecord">>, "PutGroupRecord", "InvalidateAllCache",
                       InvalidateAllCache(c))

\* a plausible slip: the record is deleted and the cache entry is left behind
DeleteUserCall_NoInvalidate(st, c, email) ==
  {[err |-> TRUE, store |-> st, cache |-> c, calls |-> <<"DeleteRecord">>],
   [err |-> FALSE, store |-> DeleteRecord(st, email), cache |-> c,
    calls |-> <<"DeleteRecord">>]}

DeleteUserCall(st, c, email) ==
  {[err |-> TRUE, store |-> st, cache |-> c, calls |-> <<"DeleteRecord">>],
   [err |-> FALSE, store |-> DeleteRecord(st, email), cache |-> InvalidateCache(c, email),
    calls |-> <<"DeleteRecord", "InvalidateCache">>]}

DeleteGroupCall(st, c, groupName) ==
  {[err |-> TRUE, store |-> st, cache |-> c, calls |-> <<"DeleteRecord">>],
   [err |-> FALSE, store |-> DeleteRecord(st, NormalizeGroupName(groupName)),
    cache |-> InvalidateAllCache(c), calls |-> <<"DeleteRecord", "InvalidateAllCache">>]}

\* succeeds only if the resolved principal's merged groups include "admin"
RequireAdminAccess(st, c, t, caller) ==
  IF caller = NoUser THEN {[err |-> TRUE, cache |-> c, calls |-> <<>>]}
  ELSE {[err |-> g.err \/ Admin \notin Range(g.acl.Groups),
         cache |-> g.cache, calls |-> g.calls] : g \in GetMergedACL(st, c, t, caller)}

\* the resolver returns (result, nil): the reply, and what the handler did
ApiReply(op, caller, id, groups, admitted, success, message, calls, st, c) ==
  /\ api.n < MaxRequests
  /\ api' = [op |-> op, n |-> api.n + 1, caller |-> caller, id |-> id,
             groups |-> groups, admitted |-> admitted, success |-> success,
             message |-> message, goErr |-> FALSE, calls |-> calls]
  /\ store' = st
  /\ cache' = c
  /\ UNCHANGED <<mutex, sweeper, ff, mw, acl, call, now, res, mut, hist>>

HasAdmin(groups) == \E i \in DOMAIN groups : groups[i] = Admin

AddUserACL(caller, email, groups, permissions) ==
  \E a \in RequireAdminAccess(store, cache, now, caller) :
    IF a.err
    THEN ApiReply("AddUserACL", caller, email, groups, FALSE, FALSE,
                  "Access denied", a.calls, store, a.cache)
    ELSE IF HasAdmin(groups)
    THEN ApiReply("AddUserACL", caller, email, groups, TRUE, FALSE,
                  "Cannot assign admin group through ACL configuration",
                  a.calls, store, a.cache)
    ELSE \E c \in CreateUserWithFieldFilters(store, a.cache, email, groups,
                                             convertPermissionsToACL(permissions)) :
           IF c.err
           THEN ApiReply("AddUserACL", caller, email, groups, TRUE, FALSE,
                         "Failed to create user ACL", a.calls \o c.calls, c.store, c.cache)
           ELSE \E g \in GetMergedACL(c.store, c.cache, now, email) :
                  ApiReply("AddUserACL", caller, email, groups, TRUE, TRUE,
                           "User ACL created successfully",
                           a.calls \o c.calls \o g.calls, c.store, g.cache)

\* the two optional updates of UpdateUserACL, lines 97-118: each outcome is
\* the accumulated state and, on failure, the message of the failed update
UpdateUserSteps(st, c, email, groups, permissions) ==
  LET none == [err |-> FALSE, store |-> st, cache |-> c, calls |-> <<>>]
      afterGroups ==
        IF Len(groups) > 0 THEN UpdateUserGroupsCall(st, c, email, groups) ELSE {none}
  IN  {[message |-> "Failed to update user groups", err |-> TRUE, store |-> u.store,
        cache |-> u.cache, calls |-> u.calls] : u \in {y \in afterGroups : y.err}}
      \cup UNION {
        IF Len(permissions) > 0
        THEN {[message |-> IF v.err THEN "Failed to update user permissions" ELSE "",
               err |-> v.err, store |-> v.store, cache |-> v.cache,
               calls |-> u.calls \o v.calls] :
                 v \in UpdateUserPermissionsCall(u.store, u.cache, email,
                                                 convertPermissionsToACL(permissions))}
        ELSE {[message |-> "", err |-> FALSE, store |-> u.store, cache |-> u.cache,
               calls |-> u.calls]} : u \in {y \in afterGroups : ~y.err}}

UpdateUserACL_NoAdminCheck(caller, email, groups, permissions) ==
  \E a \in RequireAdminAccess(store, cache, now, caller) :
    IF a.err
    THEN ApiReply("UpdateUserACL", caller, email, groups, FALSE, FALSE,
                  "Access denied", a.calls, store, a.cache)
    ELSE \E u \in UpdateUserSteps(store, a.cache, email, groups, permissions) :
           IF u.err
           THEN ApiReply("UpdateUserACL", caller, email, groups, TRUE, FALSE,
                         u.message, a.calls \o u.calls, u.store, u.cache)
           ELSE \E g \in GetMergedACL(u.store, u.cache, now, email) :
                  ApiReply("UpdateUserACL", caller, email, groups, TRUE, TRUE,
                           "User ACL updated successfully",
                           a.calls \o u.calls \o g.calls, u.store, g.cache)

UpdateUserACL(caller, email, groups, permissions) ==
  \E a \in RequireAdminAccess(store, cache, now, caller) :
    IF a.err
    THEN ApiReply("UpdateUserACL", caller, email, groups, FALSE, FALSE,
                  "Access denied", a.calls, store, a.cache)
    ELSE IF Len(groups) > 0 /\ HasAdmin(groups)
    THEN ApiReply("UpdateUserACL", caller, email, groups, TRUE, FALSE,
                  "Cannot assign admin group through ACL configuration",
                  a.calls, store, a.cache)
    ELSE \E u \in UpdateUserSteps(store, a.cache, email, groups, permissions) :
           IF u.err
           THEN ApiReply("UpdateUserACL", caller, email, groups, TRUE, FALSE,
                         u.message, a.calls \o u.calls, u.store, u.cache)
           ELSE \E g \in GetMergedACL(u.store, u.cache, now, email) :
                  ApiReply("UpdateUserACL", caller, email, groups, TRUE, TRUE,
                           "User ACL updated successfully",
                           a.calls \o u.calls \o g.calls, u.store, g.cache)

AddGroupACL(caller, groupName, permissions) ==
  \E a \in RequireAdminAccess(store, cache, now, caller) :
    IF a.err
    THEN ApiReply("AddGroupACL", caller, groupName, <<>>, FALSE, FALSE,
                  "Access denied", a.calls, store, a.cache)
    ELSE IF groupName = Admin
    THEN ApiReply("AddGroupACL", caller, groupName, <<>>, TRUE, FALSE,
                  "Cannot modify admin group through ACL configuration",
                  a.calls, store, a.cache)
    ELSE \E c \in CreateGroupWithFieldFilters(store, a.cache, groupName,
                                              convertPermissionsToACL(permissions)) :
           ApiReply("AddGroupACL", caller, groupName, <<>>, TRUE, ~c.err,
                    IF c.err THEN "Failed to create group ACL"
                    ELSE "Group ACL created successfully",
                    a.calls \o c.calls, c.store, c.cache)

UpdateGroupACL(caller, groupName, permissions) ==
  \E a \in RequireAdminAccess(store, cache, now, caller) :
    IF a.err
    THEN ApiReply("UpdateGroupACL", caller, groupName, <<>>, FALSE, FALSE,
                  "Access denied", a.calls, store, a.cache)
    ELSE IF groupName = Admin
    THEN ApiReply("UpdateGroupACL", caller, groupName, <<>>, TRUE, FALSE,
                  "Cannot modify admin group through ACL configuration",
                  a.calls, store, a.cache)
    ELSE IF Len(permissions) > 0
    THEN \E u \in UpdateGroupPermissionsCall(store, a.cache, groupName,
                                             convertPermissionsToACL(permissions)) :
           ApiReply("UpdateGroupACL", caller, groupName, <<>>, TRUE, ~u.err,
                    IF u.err THEN "Failed to update group permissions"
                    ELSE "Group ACL updated successfully",
                    a.calls \o u.calls, u.store, u.cache)
    ELSE ApiReply("UpdateGroupACL", caller, groupName, <<>>, TRUE, TRUE,
                  "Group ACL updated successfully", a.calls, store, a.cache)

\* a plausible slip: the result of the admin gate is not looked at
DeleteUserACL_NoGate(caller, email) ==
  \E a \in RequireAdminAccess(store, cache, now, caller) :
    \E x \in DeleteUserCall(store, a.cache, email) :
      ApiReply("DeleteUserACL", caller, email, <<>>, ~a.err, ~x.err,
               IF x.err THEN "Failed to delete user ACL"
               ELSE "User ACL deleted successfully",
               a.calls \o x.calls, x.store, x.cache)

DeleteUserACL(caller, email) ==
  \E a \in RequireAdminAccess(store, cache, now, caller) :
    IF a.err
    THEN ApiReply("DeleteUserACL", caller, email, <<>>, FALSE, FALSE,
                  "Access denied", a.calls, store, a.cache)
    ELSE \E x \in DeleteUserCall(store, a.cache, email) :
           ApiReply("DeleteUserACL", caller, email, <<>>, TRUE, ~x.err,
                    IF x.err THEN "Failed to delete user ACL"
                    ELSE "User ACL deleted successfully",
                    a.calls \o x.calls, x.store, x.cache)

DeleteGroupACL(caller, groupName) ==
  \E a \in RequireAdminAccess(store, cache, now, caller) :
    IF a.err
    THEN ApiReply("DeleteGroupACL", caller, groupName, <<>>, FALSE, FALSE,
                  "Access denied", a.calls, store, a.cache)
    ELSE IF groupName = Admin
    THEN ApiReply("DeleteGroupACL", caller, groupName, <<>>, TRUE, FALSE,
                  "Cannot delete admin group through ACL configuration",
                  a.calls, store, a.cache)
    ELSE \E x \in DeleteGroupCall(store, a.cache, groupName) :
           ApiReply("DeleteGroupACL", caller, groupName, <<>>, TRUE, ~x.err,
                    IF x.err THEN "Failed to delete group ACL"
                    ELSE "Group ACL deleted successfully",
                    a.calls \o x.calls, x.store, x.cache)

\* ListAllRecords: the scan fails, or returns every stored record (in an
\* order DynamoDB does not specify)
ListAllRecords(st) ==
  {[err |-> TRUE, records |-> {}, calls |-> <<"ListRecords">>],
   [err |-> FALSE, records |-> {unmarshalACLRecord(st[p]) : p \in DOMAIN st},
    calls |-> <<"ListRecords">>]}

\* the query resolver returns (nil, error) on failure
ApiQueryReply(caller, admitted, success, message, calls, records, c) ==
  /\ api.n < MaxRequests
  /\ api' = [op |-> "SsotReportsAdministratorConfiguration", n |-> api.n + 1,
             caller |-> caller, id |-> <<>>, groups |-> <<>>, admitted |-> admitted,
             success |-> success, message |-> message, goErr |-> ~success,
             calls |-> calls, records |-> records]
  /\ cache' = c
  /\ UNCHANGED <<mutex, sweeper, ff, mw, acl, call, store, now, res, mut, hist>>

SsotReportsAdministratorConfiguration(caller) ==
  \E a \in RequireAdminAccess(store, cache, now, caller) :
    IF a.err
    THEN ApiQueryReply(caller, FALSE, FALSE, "access denied", a.calls, {}, a.cache)
    ELSE \E l \in ListAllRecords(store) :
           ApiQueryReply(caller, TRUE, ~l.err,
                         IF l.err THEN "failed to list ACL records" ELSE "",
                         a.calls \o l.calls, l.records, a.cache)

\* one pass of the cleanup loop between requests
ApiSweep ==
  /\ cache' = CleanExpiredEntries(cache, now)
  /\ cache' # cache
  /\ UNCHANGED <<mutex, sweeper, ff, mw, acl, call, store, now, res, mut, hist, api>>

InitApi ==
  /\ acl = EmptyMap
  /\ call = NoCall
  /\ ServiceInit(ApiTable)
  /\ hist = [wseq |-> 0, invSeq |-> EmptyMap, entry |-> EmptyMap]
  /\ api = NoApi
  /\ ff = NoFilter
  /\ mw = NoMw

NextApi ==
  \/ \E caller \in ApiCallers, e \in ApiEmails, g \in ApiGroupLists,
        p \in ApiPermissionInputs : AddUserACL(caller, e, g, p)
  \/ \E caller \in ApiCallers, e \in ApiEmails, g \in ApiGroupLists,
        p \in ApiPermissionInputs : UpdateUserACL(caller, e, g, p)
  \/ \E caller \in ApiCallers, n \in ApiGroupNames, p \in ApiPermissionInputs :
       AddGroupACL(caller, n, p)
  \/ \E caller \in ApiCallers, n \in ApiGroupNames, p \in ApiPermissionInputs :
       UpdateGroupACL(caller, n, p)
  \/ \E caller \in ApiCallers, e \in ApiEmails : DeleteUserACL(caller, e)
  \/ \E caller \in ApiCallers, n \in ApiGroupNames : DeleteGroupACL(caller, n)
  \/ \E caller \in ApiCallers : SsotReportsAdministratorConfiguration(caller)
  \/ ApiSweep
  \/ Tick

SpecApi == InitApi /\ [][NextApi]_vars

ApiOK ==
  /\ now \in 0..MaxTime
  /\ DOMAIN cache \subseteq ApiCallers \cup ApiEmails
  /\ api.op \notin {"none", "SsotReportsAdministratorConfiguration"} => ~api.goErr

\* the calls that write the table or drop cache entries
MutatingCalls ==
  {"PutUserRecord", "PutGroupRecord", "DeleteRecord", "InvalidateCache",
   "InvalidateAllCache"}

\* the request named the literal admin: in a user's groups list, or as the
\* group to create, update or delete
C10_Targeted(a) ==
  \/ a.op \in {"AddUserACL", "UpdateUserACL"} /\ HasAdmin(a.groups)
  \/ a.op \in {"AddGroupACL", "UpdateGroupACL", "DeleteGroupACL"} /\ a.id = Admin

\* C10: a request of AddUserACL or UpdateUserACL whose groups list contains
\* the literal admin, and a request of AddGroupACL, UpdateGroupACL or
\* DeleteGroupACL for the group admin, is answered success:false with a
\* message and no Go error, after no repository put or delete and no cache
\* invalidation: the table is unchanged and every unexpired cache entry is
\* kept.  (It holds for every caller, an administrator included.)
C10_AdminImmutability ==
  [][C10_Targeted(api') =>
       /\ ~api'.success
       /\ api'.message # ""
       /\ ~api'.goErr
       /\ Range(api'.calls) \cap MutatingCalls = {}
       /\ store' = store
       /\ \A e \in DOMAIN cache :
            ~IsExpired(cache[e], now) => e \in DOMAIN cache' /\ cache'[e] = cache[e]]_vars

\* C10 witness: an administrator's request to grant admin to b@x.com has
\* passed the admin gate and been refused, with b@x.com's entry still cached
C10_Witness ==
  /\ api.op = "UpdateUserACL"
  /\ api.caller = Root
  /\ api.admitted
  /\ HasAdmin(api.groups)
  /\ ~api.success
  /\ api.message = "Cannot assign admin group through ACL configuration"
  /\ UserB \in DOMAIN cache
  /\ UserB \in DOMAIN store

-----------------------------------------------------------------------------
(* Admin immutability under every spelling, and the admin gate *)

\* C11: whatever group create, update and delete requests are served, under
\* any spelling of the group's name, the stored record of group:admin stays
\* as it was provisioned: it is never overwritten and never deleted.
C11_AdminGroupUnchanged ==
  /\ GroupAdmin \in DOMAIN store
  /\ store[GroupAdmin] = ApiTable[GroupAdmin]

\* C12: ACLService.CreateUser called with a groups list containing admin
\* returns a failure, and no stored record ever has admin in its groups (none
\* has it in the provisioned table).
C12_NoAdminGranted ==
  /\ \A m \in 1..NumMut :
       (mut[m].pc = "done" /\ mut[m].op = "CreateUser" /\ HasAdmin(mut[m].groups))
         => mut[m].err
  /\ \A p \in DOMAIN store : ~HasAdmin(store[p].Groups)

\* C13: when the admin gate fails (the caller's merged groups lack admin,
\* the identity is missing, or the caller cannot be resolved), each of the six
\* mutation resolvers and the administrative list query returns a failure,
\* having made no repository put, delete or scan and no cache invalidation:
\* the table is unchanged and every unexpired cache entry is kept.
C13_AdminGateFirst ==
  [][(api'.op # "none" /\ ~api'.admitted) =>
       /\ ~api'.success
       /\ api'.message # ""
       /\ Range(api'.calls) \cap (MutatingCalls \cup {"ListRecords"}) = {}
       /\ store' = store
       /\ \A e \in DOMAIN cache :
            ~IsExpired(cache[e], now) => e \in DOMAIN cache' /\ cache'[e] = cache[e]]_vars

\* C13 witness: a@x.com, who is resolved and is no administrator, asked for
\* b@x.com's record to be deleted and was refused; the record is still stored
C13_Witness ==
  /\ api.op = "DeleteUserACL"
  /\ api.caller = UserA
  /\ api.id = UserB
  /\ ~api.admitted
  /\ ~api.success
  /\ UserA \in DOMAIN cache
  /\ UserB \in DOMAIN store

-----------------------------------------------------------------------------
(* SpecFilter: the field-filter functions of types.go applied to drawn      *)
(* filters and values                                                       *)

FieldFilter(field, includeList, excludeList, filterType) ==
  [Field |-> field, IncludeList |-> includeList, ExcludeList |-> excludeList,
   FilterType |-> filterType]

\* a plausible slip: the include list is consulted before the exclude list
IsValueAllowed_IncludeFirst(f, value) ==
  IF \E i \in DOMAIN f.IncludeList : f.IncludeList[i] = value THEN TRUE
  ELSE IF \E i \in DOMAIN f.ExcludeList : f.ExcludeList[i] = value THEN FALSE
  ELSE Len(f.IncludeList) = 0

IsValueAllowed(f, value) ==
  IF \E i \in DOMAIN f.ExcludeList : f.ExcludeList[i] = value THEN FALSE
  ELSE IF Len(f.IncludeList) = 0 THEN TRUE
  ELSE IF \E i \in DOMAIN f.IncludeList : f.IncludeList[i] = value THEN TRUE
  ELSE FALSE

RECURSIVE FilterItems(_, _, _)
\* for _, item := range items { if filter.IsValueAllowed(getFieldValue(item)) ... }
FilterItems(items, f, fieldName) ==
  IF items = <<>> THEN <<>>
  ELSE LET rest == FilterItems(Tail(items), f, fieldName)
       IN  IF IsValueAllowed(f, Head(items)[fieldName]) THEN <<Head(items)>> \o rest
           ELSE rest

\* items are records; getFieldValue reads the named field of an item
FilterArrayByField(items, fieldName, fieldFilters) ==
  IF ~Has(fieldFilters, fieldName) THEN items
  ELSE FilterItems(items, fieldFilters[fieldName], fieldName)

LoanCode == "loancode"

FieldValues == {"L1", "L2", "L3"}

\* the lists a filter is drawn with: up to two entries, repeats included
FilterLists ==
  {<<>>} \cup {<<x>> : x \in {"L1", "L2"}} \cup {<<x, y>> : x, y \in {"L1", "L2"}}

FilterTypes == {"include", "exclude", ""}

FilterData == {<<>>, <<[loancode |-> "L1"], [loancode |-> "L3"], [loancode |-> "L1"]>>,
               <<[loancode |-> "L2"], [loancode |-> "L1"]>>}

InitFilter ==
  /\ acl = EmptyMap
  /\ call = NoCall
  /\ ServiceInit(EmptyMap)
  /\ hist = [wseq |-> 0, invSeq |-> EmptyMap, entry |-> EmptyMap]
  /\ api = NoApi
  /\ mw = NoMw
  /\ ff \in {FieldFilter(LoanCode, i, e, t) :
               i \in FilterLists, e \in FilterLists, t \in FilterTypes}

IsValueAllowedCall(value) ==
  /\ call' = [fn |-> "IsValueAllowed", value |-> value,
              result |-> IsValueAllowed(ff, value)]
  /\ UNCHANGED <<mutex, sweeper, ff, mw, acl, sysVars, api>>

FilterArrayByFieldCall(items, fieldName) ==
  /\ call' = [fn |-> "FilterArrayByField", items |-> items, fieldName |-> fieldName,
              result |-> FilterArrayByField(items, fieldName, Map1(ff.Field, ff))]
  /\ UNCHANGED <<mutex, sweeper, ff, mw, acl, sysVars, api>>

NextFilter ==
  \/ \E v \in FieldValues : IsValueAllowedCall(v)
  \/ \E items \in FilterData, f \in {LoanCode, "propertycode"} :
       FilterArrayByFieldCall(items, f)

SpecFilter == InitFilter /\ [][NextFilter]_vars

\* C15: IsValueAllowed(v) is true exactly when v is not in the exclude list
\* and the include list is empty or contains v; in particular a value in both
\* lists is denied, and the answer is the same under every filterType.
C15_ExcludeWins ==
  call.fn = "IsValueAllowed" =>
    LET v == call.value
    IN  /\ call.result = (/\ v \notin Range(ff.ExcludeList)
                          /\ (ff.IncludeList = <<>> \/ v \in Range(ff.IncludeList)))
        /\ (v \in Range(ff.ExcludeList) /\ v \in Range(ff.IncludeList)) => ~call.result
        /\ \A t \in FilterTypes :
             IsValueAllowed([ff EXCEPT !.FilterType = t], v) = call.result

\* C15 witness: includeList = [L1, L2] with excludeList = [L1], asked about L1,
\* which is denied
C15_Witness ==
  /\ call.fn = "IsValueAllowed"
  /\ ff.IncludeList = <<"L1", "L2">>
  /\ ff.ExcludeList = <<"L1">>
  /\ call.value = "L1"
  /\ ~call.result

-----------------------------------------------------------------------------
(* SpecMw: the ACLMiddleware operations (part_007) over the service, one    *)
(* whole call per step, against a provisioned table.                        *)

UserC == <<"c@x.com">>

\* strings.Contains on strings written as token sequences
Contains(s, substr) ==
  \E i \in 0..(Len(s) - Len(substr)) : SubSeq(s, i + 1, i + Len(substr)) = substr

ScopeRead == <<"ssot", ".", "read">>

\* the authenticated user of the request context: Email and Scope
User(email, scope) == [Email |-> email, Scope |-> scope]

\* a@x.com and c@x.com carry a provider-issued scope, b@x.com carries none;
\* the last context holds no user
MwContexts == {User(UserA, ScopeRead), User(UserB, <<>>), User(UserC, ScopeRead), NoUser}

\* "", a scope the users above carry in part, and one they do not carry
RequiredScopes == {<<>>, <<"read">>, <<"ssot", ".", "admin">>}

\* errors are chains of messages, outermost first; nil is the empty chain
NoError == <<>>

ErrNoUser == <<"user not found in context">>

\* what a failed DynamoDB call reports
StoreErrors == {"dynamodb error", "context canceled"}

Wrap(message, err) == <<message>> \o err

\* MergeFieldFilters: the group's filters overlaid by the user's
MergeFieldFilters(userFilters, groupFilters) == Overlay(groupFilters, userFilters)

\* a@x.com reads two columns on its own and has its own loancode filter;
\* b@x.com reads the whole table but for Balance and has no filter of its
\* own; their group filters loancode; c@x.com has no record yet
MwTable ==
  LET items ==
        {Item(UserA, <<GroupAnalyst>>, Map1(KBalance, "read"),
              Map1(LoanCode, FieldFilter(LoanCode, <<"L1", "L2">>, <<"L1">>, "include"))),
         Item(UserB, <<GroupAnalyst>>, Map2(KAll, "read", KBalance, "blocking"), EmptyMap),
         Item(GroupAnalyst, <<>>, Map1(Key(LoanCashFlow, "Status"), "read"),
              Map1(LoanCode, FieldFilter(LoanCode, <<>>, <<"L3">>, "exclude")))}
  IN  [p \in {r.PrincipalID : r \in items} |-> CHOOSE r \in items : r.PrincipalID = p]

\* GetMergedACL as its caller sees it: the MergedACL, or the error of
\* fetchAndMergeACL wrapped around what the repository reported
ResolveACL(st, c, t, email) ==
  UNION {IF g.err
         THEN {[err |-> Wrap(IF Len(g.calls) = 1 THEN "failed to get user record"
                             ELSE "failed to get group records", <<cause>>),
                acl |-> g.acl, cache |-> g.cache, calls |-> g.calls] :
                  cause \in StoreErrors}
         ELSE {[err |-> NoError, acl |-> g.acl, cache |-> g.cache, calls |-> g.calls]} :
           g \in GetMergedACL(st, c, t, email)}

\* the call returns: what it was asked, what it answered, what it did
MwReply(op, ctx, args, err, result, resolved, r, c) ==
  /\ mw' = [op |-> op, ctx |-> ctx, args |-> args, err |-> err, result |-> result,
            resolved |-> resolved, storeErr |-> r.err, acl |-> r.acl, calls |-> r.calls]
  /\ cache' = c
  /\ UNCHANGED <<mutex, sweeper, ff, acl, call, store, now, res, mut, hist, api>>

\* no resolution took place
Unresolved == [err |-> NoError, acl |-> NoACL, calls |-> <<>>]

NoResult == "nil"

AuthRequired == Wrap("authentication required", ErrNoUser)

AccessDenied == <<"access denied">>

\* a plausible slip: a failed resolution is answered as a denial
CheckPermission_DenyOnError(ctx, table, column, action) ==
  LET args == [table |-> table, column |-> column, action |-> action]
  IN  IF ctx = NoUser
      THEN MwReply("CheckPermission", ctx, args, AuthRequired, NoResult, FALSE,
                   Unresolved, cache)
      ELSE \E r \in ResolveACL(store, cache, now, ctx.Email) :
             MwReply("CheckPermission", ctx, args,
                     IF r.err = NoError /\ CanAccess(r.acl.Permissions, table, column, action)
                     THEN NoError ELSE AccessDenied,
                     NoResult, TRUE, r, r.cache)

CheckPermission(ctx, table, column, action) ==
  LET args == [table |-> table, column |-> column, action |-> action]
  IN  IF ctx = NoUser
      THEN MwReply("CheckPermission", ctx, args, AuthRequired, NoResult, FALSE,
                   Unresolved, cache)
      ELSE \E r \in ResolveACL(store, cache, now, ctx.Email) :
             MwReply("CheckPermission", ctx, args,
                     IF r.err # NoError THEN Wrap("failed to get user permissions", r.err)
                     ELSE IF ~CanAccess(r.acl.Permissions, table, column, action)
                     THEN AccessDenied
                     ELSE NoError,
                     NoResult, TRUE, r, r.cache)

CheckReadPermission(ctx, table, column) == CheckPermission(ctx, table, column, "read")

CheckWritePermission(ctx, table, column) == CheckPermission(ctx, table, column, "write")

\* a plausible slip: a context without a user is answered (false, nil)
HasAnyPermission_Anonymous(ctx, table) ==
  LET args == [table |-> table]
  IN  IF ctx = NoUser
      THEN MwReply("HasAnyPermission", ctx, args, NoError, FALSE, FALSE, Unresolved, cache)
      ELSE \E r \in ResolveACL(store, cache, now, ctx.Email) :
             MwReply("HasAnyPermission", ctx, args, r.err,
                     r.err = NoError /\ AnyPermission(r.acl.Permissions, table),
                     TRUE, r, r.cache)

HasAnyPermission(ctx, table) ==
  LET args == [table |-> table]
  IN  IF ctx = NoUser
      THEN MwReply("HasAnyPermission", ctx, args, ErrNoUser, FALSE, FALSE, Unresolved, cache)
      ELSE \E r \in ResolveACL(store, cache, now, ctx.Email) :
             MwReply("HasAnyPermission", ctx, args, r.err,
                     r.err = NoError /\ AnyPermission(r.acl.Permissions, table),
                     TRUE, r, r.cache)

RECURSIVE AllowedColumns(_, _, _)
\* for _, column := range columns { if acl.CanAccess(table, column, "read") ... }
AllowedColumns(permissions, table, columns) ==
  IF columns = <<>> THEN <<>>
  ELSE LET rest == AllowedColumns(permissions, table, Tail(columns))
       IN  IF CanAccess(permissions, table, Head(columns), "read")
           THEN <<Head(columns)>> \o rest
           ELSE rest

\* a plausible slip: the table-wide shortcut is left out
FilterColumns_AlwaysFilter(ctx, table, columns) ==
  LET args == [table |-> table, columns |-> columns]
  IN  IF ctx = NoUser
      THEN MwReply("FilterColumns", ctx, args, ErrNoUser, NoResult, FALSE, Unresolved, cache)
      ELSE \E r \in ResolveACL(store, cache, now, ctx.Email) :
             MwReply("FilterColumns", ctx, args, r.err,
                     IF r.err # NoError THEN NoResult
                     ELSE AllowedColumns(r.acl.Permissions, table, columns),
                     TRUE, r, r.cache)

FilterColumns(ctx, table, columns) ==
  LET args == [table |-> table, columns |-> columns]
  IN  IF ctx = NoUser
      THEN MwReply("FilterColumns", ctx, args, ErrNoUser, NoResult, FALSE, Unresolved, cache)
      ELSE \E r \in ResolveACL(store, cache, now, ctx.Email) :
             MwReply("FilterColumns", ctx, args, r.err,
                     IF r.err # NoError THEN NoResult
                     ELSE IF CanAccess(r.acl.Permissions, table, "*", "read") THEN columns
                     ELSE AllowedColumns(r.acl.Permissions, table, columns),
                     TRUE, r, r.cache)

\* requiredScope != "" && strings.Contains(user.Scope, requiredScope)
ScopeCheck(ctx, requiredScope) ==
  requiredScope # <<>> /\ Contains(ctx.Scope, requiredScope)

CheckPermissionFlexible(ctx, table, column, action, requiredScope) ==
  LET args == [table |-> table, column |-> column, action |-> action,
               requiredScope |-> requiredScope]
  IN  IF ctx = NoUser
      THEN MwReply("CheckPermissionFlexible", ctx, args, AuthRequired, NoResult, FALSE,
                   Unresolved, cache)
      ELSE \E r \in ResolveACL(store, cache, now, ctx.Email) :
             MwReply("CheckPermissionFlexible", ctx, args,
                     IF r.err = NoError /\ CanAccess(r.acl.Permissions, table, column, action)
                     THEN NoError
                     ELSE IF ScopeCheck(ctx, requiredScope) THEN NoError
                     ELSE AccessDenied,
                     NoResult, TRUE, r, r.cache)

\* the convenience lists are filled in map order: modelled as sets
NewColumnPermissions(table, columnAccess, usedScopeFallback) ==
  [Table |-> table, ColumnAccess |-> columnAccess,
   UsedScopeFallback |-> usedScopeFallback,
   AllowedColumns |-> {c \in DOMAIN columnAccess : columnAccess[c] = "allowed"},
   BlockedColumns |-> {c \in DOMAIN columnAccess : columnAccess[c] # "allowed"}]

GetColumnPermissionsFlexible(ctx, table, requiredScope, allColumns) ==
  LET args == [table |-> table, requiredScope |-> requiredScope, columns |-> allColumns]
      cols == Range(allColumns)
  IN  IF ctx = NoUser
      THEN MwReply("GetColumnPermissionsFlexible", ctx, args, AuthRequired, NoResult,
                   FALSE, Unresolved, cache)
      ELSE \E r \in ResolveACL(store, cache, now, ctx.Email) :
             IF r.err = NoError
             THEN MwReply("GetColumnPermissionsFlexible", ctx, args, NoError,
                    NewColumnPermissions(table,
                      [c \in cols |-> IF CanAccess(r.acl.Permissions, table, c, "read")
                                      THEN "allowed" ELSE "blocked"], FALSE),
                    TRUE, r, r.cache)
             ELSE IF ScopeCheck(ctx, requiredScope)
             THEN MwReply("GetColumnPermissionsFlexible", ctx, args, NoError,
                    NewColumnPermissions(table, [c \in cols |-> "allowed"], TRUE),
                    TRUE, r, r.cache)
             ELSE MwReply("GetColumnPermissionsFlexible", ctx, args, AccessDenied,
                    NewColumnPermissions(table, [c \in cols |-> "blocked"], FALSE),
                    TRUE, r, r.cache)

\* the result is the pair (hasPermission, aclAvailable)
TryACLFirst(ctx, table, column, action) ==
  LET args == [table |-> table, column |-> column, action |-> action]
  IN  IF ctx = NoUser
      THEN MwReply("TryACLFirst", ctx, args, AuthRequired, <<FALSE, FALSE>>, FALSE,
                   Unresolved, cache)
      ELSE \E r \in ResolveACL(store, cache, now, ctx.Email) :
             MwReply("TryACLFirst", ctx, args, NoError,
                     IF r.err # NoError THEN <<FALSE, FALSE>>
                     ELSE <<CanAccess(r.acl.Permissions, table, column, action), TRUE>>,
                     TRUE, r, r.cache)

\* GetFieldFilters run to completion: its outcomes
FieldFiltersOf(ctx, st, c, t) ==
  IF ctx = NoUser
  THEN {[err |-> AuthRequired, filters |-> EmptyMap, resolved |-> FALSE,
         r |-> Unresolved, cache |-> c]}
  ELSE {[err |-> IF r.err # NoError THEN Wrap("failed to get user permissions", r.err)
                 ELSE NoError,
         filters |-> r.acl.FieldFilters, resolved |-> TRUE,
         r |-> [err |-> r.err, acl |-> r.acl, calls |-> r.calls], cache |-> r.cache] :
           r \in ResolveACL(st, c, t, ctx.Email)}

GetFieldFilters(ctx) ==
  \E g \in FieldFiltersOf(ctx, store, cache, now) :
    MwReply("GetFieldFilters", ctx, [none |-> TRUE], g.err,
            IF g.err # NoError THEN NoResult ELSE g.filters, g.resolved, g.r, g.cache)

FilterDataByField(ctx, data, fieldName) ==
  \E g \in FieldFiltersOf(ctx, store, cache, now) :
    MwReply("FilterDataByField", ctx, [data |-> data, fieldName |-> fieldName], g.err,
            IF g.err # NoError THEN NoResult
            ELSE FilterArrayByField(data, fieldName, g.filters),
            g.resolved, g.r, g.cache)

CheckFieldValueAccess(ctx, fieldName, fieldValue) ==
  \E g \in FieldFiltersOf(ctx, store, cache, now) :
    MwReply("CheckFieldValueAccess", ctx,
            [fieldName |-> fieldName, fieldValue |-> fieldValue], g.err,
            IF g.err # NoError THEN FALSE
            ELSE IF ~Has(g.filters, fieldName) THEN TRUE
            ELSE IsValueAllowed(g.filters[fieldName], fieldValue),
            g.resolved, g.r, g.cache)

MwColumns == {"Balance", "Status", "*"}

MwActions == {"read", "write"}

MwColumnLists == {<<"Balance", "Status">>, <<"Status", "Rate", "Balance">>}

InitMw ==
  /\ acl = EmptyMap
  /\ call = NoCall
  /\ ServiceInit(MwTable)
  /\ hist = [wseq |-> 0, invSeq |-> EmptyMap, entry |-> EmptyMap]
  /\ api = NoApi
  /\ ff = NoFilter
  /\ mw = NoMw

NextMw ==
  \/ \E ctx \in MwContexts, c \in MwColumns, a \in MwActions :
       CheckPermission(ctx, LoanCashFlow, c, a)
  \/ \E ctx \in MwContexts : CheckReadPermission(ctx, LoanCashFlow, "Status")
  \/ \E ctx \in MwContexts : CheckWritePermission(ctx, LoanCashFlow, "Status")
  \/ \E ctx \in MwContexts, t \in {LoanCashFlow, "LoanCache"} : HasAnyPermission(ctx, t)
  \/ \E ctx \in MwContexts, cols \in MwColumnLists : FilterColumns(ctx, LoanCashFlow, cols)
  \/ \E ctx \in MwContexts, c \in {"Balance", "Status"}, s \in RequiredScopes :
       CheckPermissionFlexible(ctx, LoanCashFlow, c, "read", s)
  \/ \E ctx \in MwContexts, s \in RequiredScopes :
       GetColumnPermissionsFlexible(ctx, LoanCashFlow, s, <<"Status", "Rate", "Balance">>)
  \/ \E ctx \in MwContexts, a \in MwActions : TryACLFirst(ctx, LoanCashFlow, "Balance", a)
  \/ \E ctx \in MwContexts : GetFieldFilters(ctx)
  \/ \E ctx \in MwContexts, data \in FilterData \ {<<>>} :
       FilterDataByField(ctx, data, LoanCode)
  \/ \E ctx \in MwContexts, v \in FieldValues : CheckFieldValueAccess(ctx, LoanCode, v)
  \/ ApiSweep
  \/ Tick

SpecMw == InitMw /\ [][NextMw]_vars

MwOK ==
  /\ now \in 0..MaxTime
  /\ DOMAIN cache \subseteq {UserA, UserB, UserC}
  /\ store = MwTable
  /\ mw.op # "none" => (mw.ctx = NoUser <=> ~mw.resolved)

-----------------------------------------------------------------------------
(* Properties of the middleware *)

RECURSIVE GroupFieldFilters(_, _, _)
\* the field-filter maps stored for the listed groups, laid down in list order
GroupFieldFilters(st, groups, merged) ==
  IF groups = <<>> THEN merged
  ELSE GroupFieldFilters(st, Tail(groups),
         IF Head(groups) \in DOMAIN st THEN Overlay(merged, st[Head(groups)].FieldFilters)
         ELSE merged)

\* what the table holds for a user: the groups' filters overlaid by the user's
StoredFieldFilters(st, email) ==
  IF email \notin DOMAIN st THEN EmptyMap
  ELSE MergeFieldFilters(st[email].FieldFilters,
                         GroupFieldFilters(st, st[email].Groups, EmptyMap))

\* C14: for an authenticated user whose resolution succeeds, GetFieldFilters
\* returns the groups' stored field filters overlaid by the user's own;
\* CheckFieldValueAccess(F, v) is false when that filter on F excludes v; and
\* FilterDataByField keeps no item whose F the filter excludes.
C14_FieldFiltersEnforced ==
  (mw.op \in {"GetFieldFilters", "CheckFieldValueAccess", "FilterDataByField"}
     /\ mw.ctx # NoUser /\ mw.err = NoError) =>
    LET stored == StoredFieldFilters(store, mw.ctx.Email)
        Excluded(F, v) == Has(stored, F) /\ ~IsValueAllowed(stored[F], v)
    IN  /\ mw.op = "GetFieldFilters" => mw.result = stored
        /\ mw.op = "CheckFieldValueAccess" =>
             (Excluded(mw.args.fieldName, mw.args.fieldValue) => mw.result = FALSE)
        /\ mw.op = "FilterDataByField" =>
             \A i \in DOMAIN mw.result :
               ~Excluded(mw.args.fieldName, mw.result[i][mw.args.fieldName])

\* C16: for an authenticated principal, CheckPermissionFlexible returns ok,
\* and GetColumnPermissionsFlexible marks a column allowed, exactly when the
\* ACL check passes on the resolved MergedACL or the principal's scope
\* contains the non-empty required scope.
C16_FlexibleEither ==
  (mw.op \in {"CheckPermissionFlexible", "GetColumnPermissionsFlexible"}
     /\ mw.ctx # NoUser) =>
    LET AclPasses(c, a) ==
          mw.storeErr = NoError /\ CanAccess(mw.acl.Permissions, mw.args.table, c, a)
        scopePasses == ScopeCheck(mw.ctx, mw.args.requiredScope)
    IN  /\ mw.op = "CheckPermissionFlexible" =>
             ((mw.err = NoError) <=>
                (AclPasses(mw.args.column, mw.args.action) \/ scopePasses))
        /\ mw.op = "GetColumnPermissionsFlexible" =>
             \A c \in Range(mw.args.columns) :
               (mw.result.ColumnAccess[c] = "allowed") <=>
                 (AclPasses(c, "read") \/ scopePasses)

\* C17: FilterColumns returns its input unchanged when CanAccess(table, "*",
\* "read") holds on the caller's MergedACL, and otherwise exactly the
\* subsequence, in input order, of the columns c with CanAccess(table, c, "read").
C17_FilterColumns ==
  (mw.op = "FilterColumns" /\ mw.err = NoError) =>
    LET Allowed(c) == CanAccess(mw.acl.Permissions, mw.args.table, c, "read")
    IN  IF CanAccess(mw.acl.Permissions, mw.args.table, "*", "read")
        THEN mw.result = mw.args.columns
        ELSE mw.result = SelectSeq(mw.args.columns, Allowed)

\* C17 witness: a@x.com, with no table-wide read, gets Status and Balance out
\* of Status, Rate, Balance
C17_Witness ==
  /\ mw.op = "FilterColumns"
  /\ mw.err = NoError
  /\ mw.ctx.Email = UserA
  /\ mw.args.columns = <<"Status", "Rate", "Balance">>
  /\ mw.result = <<"Status", "Balance">>

\* the step installs and modifies no cache entry
NoCacheWrite == \A e \in DOMAIN cache' : e \in DOMAIN cache /\ cache'[e] = cache[e]

IdentityChecked ==
  {"CheckPermission", "CheckPermissionFlexible", "GetColumnPermissionsFlexible",
   "GetFieldFilters", "FilterColumns", "HasAnyPermission"}

\* C18: with no authenticated principal in the context, CheckPermission,
\* CheckPermissionFlexible, GetColumnPermissionsFlexible, GetFieldFilters,
\* FilterColumns and HasAnyPermission return an error that is the
\* identity-missing error and not an access-denied error, with no positive
\* result, without resolving the ACL: no repository call, no cache write.
C18_IdentityMissing ==
  [][(mw'.op \in IdentityChecked /\ mw'.ctx = NoUser) =>
       /\ mw'.err # NoError
       /\ mw'.err[Len(mw'.err)] = ErrNoUser[1]
       /\ AccessDenied[1] \notin Range(mw'.err)
       /\ mw'.result = IF mw'.op = "HasAnyPermission" THEN FALSE ELSE NoResult
       /\ ~mw'.resolved
       /\ mw'.calls = <<>>
       /\ NoCacheWrite]_vars

\* C18 witness: GetColumnPermissionsFlexible was called without a user while
\* entries were cached, and answered "authentication required"
C18_Witness ==
  /\ mw.op = "GetColumnPermissionsFlexible"
  /\ mw.ctx = NoUser
  /\ mw.err = AuthRequired
  /\ UserA \in DOMAIN cache

\* C19: when the repository fails while GetMergedACL resolves on a miss,
\* CheckPermission (and so CheckReadPermission and CheckWritePermission)
\* returns "failed to get user permissions" wrapped around the store error,
\* never ok and never access-denied; the step writes no cache entry and the
\* user is left without a valid entry, so the next resolution fetches again.
C19_StoreFailureStrict ==
  [][(mw'.op = "CheckPermission" /\ mw'.storeErr # NoError) =>
       /\ mw'.err = Wrap("failed to get user permissions", mw'.storeErr)
       /\ \E cause \in StoreErrors : mw'.err[Len(mw'.err)] = cause
       /\ AccessDenied[1] \notin Range(mw'.err)
       /\ NoCacheWrite
       /\ LET email == mw'.ctx.Email
          IN  ~(email \in DOMAIN cache' /\ ~IsExpired(cache'[email], now'))]_vars

\* C19 witness: a write check for a@x.com failed on a canceled context while
\* b@x.com's entry was cached
C19_Witness ==
  /\ mw.op = "CheckPermission"
  /\ mw.args.action = "write"
  /\ mw.ctx # NoUser
  /\ mw.ctx.Email = UserA
  /\ mw.storeErr # NoError
  /\ mw.err[Len(mw.err)] = "context canceled"
  /\ UserB \in DOMAIN cache

\* C20: when resolution fails with a repository error and the scope does not
\* contain the required scope, CheckPermissionFlexible and
\* GetColumnPermissionsFlexible return an error that carries the store error
\* and is not access-denied; and TryACLFirst returns a non-nil error whenever
\* resolution fails.
C20_StoreFailureFlexible ==
  /\ (mw.op \in {"CheckPermissionFlexible", "GetColumnPermissionsFlexible"}
        /\ mw.storeErr # NoError /\ ~ScopeCheck(mw.ctx, mw.args.requiredScope)) =>
       /\ mw.err # NoError
       /\ AccessDenied[1] \notin Range(mw.err)
       /\ \E cause \in StoreErrors : cause \in Range(mw.err)
  /\ (mw.op = "TryACLFirst" /\ mw.storeErr # NoError) => mw.err # NoError

-----------------------------------------------------------------------------
(* Further properties of the permission model and of the middleware *)

\* C22: in every reachable store, every record whose principalID starts with
\* "group:" has an empty groups list, whatever principal arguments the
\* mutation operations were called with.
C22_GroupRecordsHaveNoGroups ==
  \A p \in DOMAIN store : isGroupName(p) => store[p].Groups = <<>>

\* C23: every column FilterColumns returns satisfies CanAccess(table, c,
\* "read") on the caller's MergedACL; a column whose table#c entry is
\* blocking is never returned, also when table#* or *#* grants read.
C23_FilterColumnsSound ==
  (mw.op = "FilterColumns" /\ mw.err = NoError) =>
    \A i \in DOMAIN mw.result :
      CanAccess(mw.acl.Permissions, mw.args.table, mw.result[i], "read")

\* C24: when no applicable key is blocking, the value stored at the deciding
\* (most specific present) key grants at least the action it names: read
\* grants read, write grants write, readwrite grants both.
C24_StoredActionGrantsItself ==
  (call.fn = "CanAccess"
     /\ (\A k \in ApplicableKeys(call.table, call.column) : ~BlockedAt(acl, k))
     /\ (\E present \in ApplicableKeys(call.table, call.column) : Has(acl, present))) =>
    LET exactKey    == Key(call.table, call.column)
        wildcardKey == Key(call.table, "*")
        deciding    == IF Has(acl, exactKey) THEN exactKey
                       ELSE IF Has(acl, wildcardKey) THEN wildcardKey
                       ELSE Key("*", "*")
    IN  /\ (acl[deciding] = "read" /\ call.action = "read") => call.result = TRUE
        /\ (acl[deciding] = "write" /\ call.action = "write") => call.result = TRUE
        /\ (acl[deciding] = "readwrite" /\ call.action \in {"read", "write"})
             => call.result = TRUE

\* C30: HasAnyPermission's answer for a table is true exactly when some stored
\* key is table#... or the key *#* exists, whatever the stored values are, and
\* it is true whenever CanAccess(table, c, a) is true for some column and action.
C30_HasAnyPermissionSound ==
  call.fn = "AnyPermission" =>
    /\ call.result <=>
         ((\E key \in DOMAIN acl : key[1] = call.table) \/ Key("*", "*") \in DOMAIN acl)
    /\ (\E c \in RequestColumns, a \in RequestActions :
          CanAccess(acl, call.table, c, a)) => call.result = TRUE

\* C30 witness: access to LoanCache comes from *#* alone, next to a blocking
\* key of another table, and the answer is true
C30_Witness ==
  /\ call.fn = "AnyPermission"
  /\ call.table = "LoanCache"
  /\ DOMAIN acl = {Key("*", "*"), Key(LoanCashFlow, "Balance")}
  /\ acl[Key("*", "*")] = "read"
  /\ acl[Key(LoanCashFlow, "Balance")] = "blocking"
  /\ CanAccess(acl, "LoanCache", "Status", "read")
  /\ call.result = TRUE

-----------------------------------------------------------------------------
(* SpecSvc: the ACLService called by one caller at a time, one whole call   *)
(* per step, over TableA.  call records the last call and what it returned; *)
(* hist.entry remembers, for each cached user, the MergedACL that the        *)
(* resolution which installed the entry returned.                            *)

SvcEmails == {UserA, UserB, UserC}

SvcDeleted == {UserA, UserB}

InitSvc ==
  /\ acl = EmptyMap
  /\ call = NoCall
  /\ ServiceInit(TableA)
  /\ hist = [wseq |-> 0, invSeq |-> EmptyMap, entry |-> EmptyMap]
  /\ api = NoApi
  /\ ff = NoFilter
  /\ mw = NoMw

(* GetMergedACL(ctx, email) *)
SvcGetMergedACL(email) ==
  \E g \in GetMergedACL(store, cache, now, email) :
    /\ call' = [fn |-> "GetMergedACL", email |-> email, err |-> g.err, acl |-> g.acl,
                calls |-> g.calls, hit |-> (~g.err /\ g.calls = <<>>)]
    /\ cache' = g.cache
    /\ hist' = IF ~g.err /\ g.calls # <<>>
               THEN [hist EXCEPT !.entry = MapPut(@, email, g.acl)]
               ELSE hist
    /\ UNCHANGED <<mutex, sweeper, ff, mw, acl, store, now, res, mut, api>>

(* DeleteUser(ctx, email) *)
SvcDeleteUser(email) ==
  \E o \in DeleteUserCall(store, cache, email) :
    /\ call' = [fn |-> "DeleteUser", email |-> email, err |-> o.err, acl |-> NoACL,
                calls |-> o.calls, hit |-> FALSE]
    /\ store' = o.store
    /\ cache' = o.cache
    /\ hist' = [hist EXCEPT !.entry = [e \in DOMAIN o.cache |-> @[e]]]
    /\ UNCHANGED <<mutex, sweeper, ff, mw, acl, now, res, mut, api>>

(* one pass of cleanExpiredEntries *)
SvcSweep ==
  /\ cache' = CleanExpiredEntries(cache, now)
  /\ call' = [fn |-> "cleanExpiredEntries", email |-> <<>>, err |-> FALSE, acl |-> NoACL,
              calls |-> <<>>, hit |-> FALSE]
  /\ hist' = [hist EXCEPT !.entry = [e \in DOMAIN cache' |-> @[e]]]
  /\ UNCHANGED <<mutex, sweeper, ff, mw, acl, store, now, res, mut, api>>

NextSvc ==
  \/ \E e \in SvcEmails : SvcGetMergedACL(e)
  \/ \E e \in SvcDeleted : SvcDeleteUser(e)
  \/ SvcSweep
  \/ Tick

SpecSvc == InitSvc /\ [][NextSvc]_vars

SvcOK ==
  /\ now \in 0..MaxTime
  /\ DOMAIN cache \subseteq SvcEmails
  /\ DOMAIN hist.entry = DOMAIN cache


\* a resolution that went to the repository and succeeded
SvcMiss(c) == c.fn = "GetMergedACL" /\ ~c.err /\ c.calls # <<>>

\* C26: for fixed store contents, two cache-miss resolutions of the same user
\* return the same merged permissions, whatever order the batch fetch
\* returned the group records in.
C26_MergeDeterministic ==
  [][(SvcMiss(call) /\ SvcMiss(call') /\ call'.email = call.email /\ store' = store)
       => call'.acl.Permissions = call.acl.Permissions]_vars

\* what a caller of GetMergedACL observes: the error, the value, the
\* repository calls (none on a hit)
SvcView(outcomes) == {[err |-> o.err, acl |-> o.acl, calls |-> o.calls] : o \in outcomes}

\* C28: a sweep pass removes exactly the entries with now > expiresAt and
\* leaves the others as they are; and a resolution of any user at the time of
\* the pass or later returns the same value, is a hit or a miss alike and
\* makes the same repository calls whether or not the pass has run, leaving
\* caches that differ in expired entries only.
C28_SweepInvisible ==
  [][call'.fn = "cleanExpiredEntries" =>
       /\ DOMAIN cache' = {e \in DOMAIN cache : ~(now > cache[e].ExpiresAt)}
       /\ \A e \in DOMAIN cache' : cache'[e] = cache[e]
       /\ \A e \in SvcEmails, t \in now..MaxTime :
            /\ SvcView(GetMergedACL(store, cache', t, e))
                 = SvcView(GetMergedACL(store, cache, t, e))
            /\ \A o1 \in GetMergedACL(store, cache, t, e) :
                 \E o2 \in GetMergedACL(store, cache', t, e) :
                   /\ o2.acl = o1.acl /\ o2.err = o1.err /\ o2.calls = o1.calls
                   /\ CleanExpiredEntries(o2.cache, t) = CleanExpiredEntries(o1.cache, t)]_vars

\* C28 witness: at its expiry instant b@x.com's entry was kept by a pass that
\* removed a@x.com's expired one
C28_Witness ==
  /\ call.fn = "cleanExpiredEntries"
  /\ DOMAIN cache = {UserB}
  /\ cache[UserB].ExpiresAt = now
  /\ DOMAIN hist.entry = {UserB}
  /\ UserA \in DOMAIN store

\* C29: a GetMergedACL that hits the cache returns the userEmail,
\* permissions, groups and field filters that the cache-miss resolution which
\* installed the entry returned.
C29_CacheTransparent ==
  [][(call'.fn = "GetMergedACL" /\ call'.hit) =>
       LET installed == hist.entry[call'.email]
       IN  /\ call'.email \in DOMAIN hist.entry
           /\ call'.acl.UserEmail = installed.UserEmail
           /\ call'.acl.Permissions = installed.Permissions
           /\ call'.acl.Groups = installed.Groups
           /\ call'.acl.FieldFilters = installed.FieldFilters]_vars

\* C29 witness: a@x.com's merged permissions, group keys included, were
\* answered from the cache
C29_Witness ==
  /\ call.fn = "GetMergedACL"
  /\ call.hit
  /\ call.email = UserA
  /\ Has(call.acl.Permissions, KAll)
  /\ call.acl.Permissions[KBalance] = "read"
  /\ call.acl.Groups = <<GroupAnalyst, GroupOps, GroupGone>>

-----------------------------------------------------------------------------
(* SpecDeny: strict permission checks while users are deleted, one whole    *)
(* call per step, over MwTable (c@x.com was never created).                 *)

(* DeleteUser(ctx, email) between two middleware calls *)
DenyDeleteUser(email) ==
  \E o \in DeleteUserCall(store, cache, email) :
    /\ call' = [fn |-> "DeleteUser", email |-> email, err |-> o.err, calls |-> o.calls]
    /\ mw' = NoMw
    /\ store' = o.store
    /\ cache' = o.cache
    /\ UNCHANGED <<mutex, sweeper, ff, acl, now, res, mut, hist, api>>

NextDeny ==
  \/ \E ctx \in MwContexts, c \in MwColumns, a \in MwActions :
       CheckPermission(ctx, LoanCashFlow, c, a)
  \/ \E e \in {UserA, UserB} : DenyDeleteUser(e)
  \/ ApiSweep
  \/ Tick

SpecDeny == InitMw /\ [][NextDeny]_vars

-----------------------------------------------------------------------------
(* SpecUpd: UpdateUserGroups(e, G) and UpdateUserPermissions(e, P) called   *)
(* by two concurrent requests on the same principal.  Both calls have been  *)
(* entered; every interleaving of their repository calls and invalidations  *)
(* follows.                                                                  *)

UpdGroupsCall(email, groups) ==
  [IdleMut EXCEPT !.pc = "get", !.op = "UpdateUserGroups", !.id = email,
                  !.groups = groups]

UpdPermissionsCall(email, permissions) ==
  [IdleMut EXCEPT !.pc = "get", !.op = "UpdateUserPermissions", !.id = email,
                  !.permissions = permissions]

InitUpd ==
  /\ acl = EmptyMap
  /\ call = NoCall
  /\ mutex = FreeMutex
  /\ sweeper = "sleep"
  /\ store = TableA
  /\ cache = EmptyMap
  /\ now = 0
  /\ res = [r \in 1..NumRes |-> IdleRes]
  /\ \E e \in MutUserIds, g \in MutGroups, p \in MutPermissions :
       mut = <<UpdGroupsCall(e, g), UpdPermissionsCall(e, p)>>
  /\ hist = [wseq |-> 0, invSeq |-> [e \in ResolveEmails |-> 0], entry |-> EmptyMap]
  /\ api = NoApi
  /\ ff = NoFilter
  /\ mw = NoMw

NextUpd ==
  \/ \E m \in DOMAIN mut : MutGet(m)
  \/ \E m \in DOMAIN mut : MutPut(m)
  \/ \E m \in DOMAIN mut : MutInvalidate(m)
  \/ Tick

SpecUpd == InitUpd /\ [][NextUpd]_vars

UpdSucceeded(m) == mut[m].pc = "done" /\ ~mut[m].err

\* C25: UpdateUserGroups(e, G) changes only the groups of e's stored record
\* and UpdateUserPermissions(e, P) only its permissions, and whenever one call
\* of each on the same user has returned success, in any interleaving, the
\* stored record has groups = G and permissions = P.
C25_NoLostUpdate ==
  LET e == mut[1].id
      before == GetUserRecord(TableA, e)
  IN  /\ (UpdSucceeded(1) /\ mut[2].pc = "get") =>
           /\ store[e].Groups = mut[1].groups
           /\ store[e].Permissions = before.Permissions
      /\ (UpdSucceeded(2) /\ mut[1].pc = "get") =>
           /\ store[e].Permissions = mut[2].permissions
           /\ store[e].Groups = before.Groups
      /\ (UpdSucceeded(1) /\ UpdSucceeded(2)) =>
           /\ store[e].Groups = mut[1].groups
           /\ store[e].Permissions = mut[2].permissions

-----------------------------------------------------------------------------
(* SpecLock: the service under concurrent callers with s.mutex explicit.    *)
(* RLock and Lock are calls that may block: a caller enters the call, and   *)
(* goes on once it holds the lock.  As in sync.RWMutex a blocked Lock keeps  *)
(* new readers out, and Unlock lets the readers blocked so far in.           *)

ResId(r) == <<"res", r>>

MutId(m) == <<"mut", m>>

SweepId == <<"sweep", 1>>

\* RLock is called: it returns at once unless a writer holds or awaits the lock
RLock(mx, p) ==
  IF mx.writer = {} /\ mx.wwait = {}
  THEN [mx EXCEPT !.readers = @ \cup {p}]
  ELSE [mx EXCEPT !.rwait = @ \cup {p}]

RUnlock(mx, p) == [mx EXCEPT !.readers = @ \ {p}]

\* Lock is called
Lock(mx, p) == [mx EXCEPT !.wwait = @ \cup {p}]

\* Lock can return: no reader and no writer holds the lock
CanLock(mx, p) == p \in mx.wwait /\ mx.writer = {} /\ mx.readers = {}

\* Lock returns
Acquire(mx, p) == [mx EXCEPT !.wwait = @ \ {p}, !.writer = {p}]

\* Unlock: the readers blocked meanwhile get the lock
Unlock(mx, p) == [mx EXCEPT !.writer = {}, !.readers = @ \cup mx.rwait, !.rwait = {}]

Holds(p) == p \in mutex.readers \/ p \in mutex.writer

(* GetMergedACL, line 35: s.mutex.RLock() *)
LkResCall(r, email) ==
  /\ res[r].pc = "idle"
  /\ res' = [res EXCEPT ![r] = [IdleRes EXCEPT !.pc = "rlock", !.email = email]]
  /\ mutex' = RLock(mutex, ResId(r))
  /\ UNCHANGED <<sweeper, ff, mw, acl, call, store, cache, now, mut, hist, api>>

\* a plausible slip: on a miss the read lock is kept for the fetch
LkResCheck_KeepRLock(r) ==
  /\ res[r].pc = "rlock"
  /\ ResId(r) \in mutex.readers
  /\ LET email == res[r].email
         exists == email \in DOMAIN cache
     IN  IF exists /\ ~IsExpired(cache[email], now)
         THEN /\ res' = [res EXCEPT ![r] =
                   [@ EXCEPT !.pc = "done", !.hit = TRUE,
                             !.merged = MergedACL(email, cache[email].ACL.Permissions,
                                                  cache[email].ACL.Groups)]]
              /\ mutex' = RUnlock(mutex, ResId(r))
         ELSE /\ res' = [res EXCEPT ![r] = [@ EXCEPT !.pc = "getUser", !.stale = exists]]
              /\ mutex' = mutex
  /\ UNCHANGED <<sweeper, ff, mw, acl, call, store, cache, now, mut, hist, api>>

(* GetMergedACL, lines 36-45: the check under the read lock, then RUnlock *)
LkResCheck(r) ==
  /\ res[r].pc = "rlock"
  /\ ResId(r) \in mutex.readers
  /\ LET email == res[r].email
         exists == email \in DOMAIN cache
     IN  IF exists /\ ~IsExpired(cache[email], now)
         THEN res' = [res EXCEPT ![r] =
                [@ EXCEPT !.pc = "done", !.hit = TRUE,
                          !.merged = MergedACL(email, cache[email].ACL.Permissions,
                                               cache[email].ACL.Groups)]]
         ELSE res' = [res EXCEPT ![r] = [@ EXCEPT !.pc = "getUser", !.stale = exists]]
  /\ mutex' = RUnlock(mutex, ResId(r))
  /\ UNCHANGED <<sweeper, ff, mw, acl, call, store, cache, now, mut, hist, api>>

(* GetMergedACL, line 54: s.mutex.Lock() *)
LkResLock(r) ==
  /\ res[r].pc = "install"
  /\ res' = [res EXCEPT ![r].pc = "lock"]
  /\ mutex' = Lock(mutex, ResId(r))
  /\ UNCHANGED <<sweeper, ff, mw, acl, call, store, cache, now, mut, hist, api>>

LkResAcquire(r) ==
  /\ res[r].pc = "lock"
  /\ CanLock(mutex, ResId(r))
  /\ res' = [res EXCEPT ![r].pc = "locked"]
  /\ mutex' = Acquire(mutex, ResId(r))
  /\ UNCHANGED <<sweeper, ff, mw, acl, call, store, cache, now, mut, hist, api>>

(* GetMergedACL, lines 55-61: the install, then Unlock *)
LkResInstall(r) ==
  /\ res[r].pc = "locked"
  /\ cache' = MapPut(cache, res[r].email,
                NewCacheEntry(ACLRecord(res[r].email, res[r].merged.Groups,
                                        res[r].merged.Permissions), TTL, now))
  /\ res' = [res EXCEPT ![r].pc = "done"]
  /\ mutex' = Unlock(mutex, ResId(r))
  /\ UNCHANGED <<sweeper, ff, mw, acl, call, store, now, mut, hist, api>>

(* InvalidateCache, line 105 / InvalidateAllCache, line 112: s.mutex.Lock() *)
LkMutLock(m) ==
  /\ mut[m].pc = "inv"
  /\ mut' = [mut EXCEPT ![m].pc = "lock"]
  /\ mutex' = Lock(mutex, MutId(m))
  /\ UNCHANGED <<sweeper, ff, mw, acl, call, store, cache, now, res, hist, api>>

LkMutAcquire(m) ==
  /\ mut[m].pc = "lock"
  /\ CanLock(mutex, MutId(m))
  /\ mut' = [mut EXCEPT ![m].pc = "locked"]
  /\ mutex' = Acquire(mutex, MutId(m))
  /\ UNCHANGED <<sweeper, ff, mw, acl, call, store, cache, now, res, hist, api>>

(* InvalidateCache, lines 106-107 / InvalidateAllCache, lines 113-114: the  *)
(* map edit, then the deferred Unlock                                        *)
LkMutInvalidate(m) ==
  /\ mut[m].pc = "locked"
  /\ cache' = IF mut[m].op \in UserOps THEN InvalidateCache(cache, mut[m].id)
              ELSE InvalidateAllCache(cache)
  /\ mut' = [mut EXCEPT ![m].pc = "done"]
  /\ mutex' = Unlock(mutex, MutId(m))
  /\ UNCHANGED <<sweeper, ff, mw, acl, call, store, now, res, hist, api>>

(* startCacheCleanup: the ticker fires; cleanExpiredEntries, line 129: Lock() *)
LkSweepLock ==
  /\ sweeper = "sleep"
  /\ sweeper' = "lock"
  /\ mutex' = Lock(mutex, SweepId)
  /\ UNCHANGED <<ff, mw, acl, call, store, cache, now, res, mut, hist, api>>

LkSweepAcquire ==
  /\ sweeper = "lock"
  /\ CanLock(mutex, SweepId)
  /\ sweeper' = "locked"
  /\ mutex' = Acquire(mutex, SweepId)
  /\ UNCHANGED <<ff, mw, acl, call, store, cache, now, res, mut, hist, api>>

(* cleanExpiredEntries, lines 130-137: the pass, then the deferred Unlock *)
LkSweepClean ==
  /\ sweeper = "locked"
  /\ cache' = CleanExpiredEntries(cache, now)
  /\ sweeper' = "sleep"
  /\ mutex' = Unlock(mutex, SweepId)
  /\ UNCHANGED <<ff, mw, acl, call, store, now, res, mut, hist, api>>

LockEmails == {UserA}

NextLock ==
  \/ \E r \in 1..NumRes, e \in LockEmails : LkResCall(r, e)
  \/ \E r \in 1..NumRes : LkResCheck(r)
  \/ \E r \in 1..NumRes : ResGetUser(r)
  \/ \E r \in 1..NumRes : ResBatchGet(r)
  \/ \E r \in 1..NumRes : LkResLock(r)
  \/ \E r \in 1..NumRes : LkResAcquire(r)
  \/ \E r \in 1..NumRes : LkResInstall(r)
  \/ \E r \in 1..NumRes : ResReturn(r)
  \/ \E m \in 1..NumMut, p \in MutPermissions : UpdateUserPermissions(m, UserA, p)
  \/ \E m \in 1..NumMut, p \in MutPermissions : UpdateGroupPermissions(m, GroupAnalyst, p)
  \/ \E m \in 1..NumMut : MutGet(m)
  \/ \E m \in 1..NumMut : MutPut(m)
  \/ \E m \in 1..NumMut : LkMutLock(m)
  \/ \E m \in 1..NumMut : LkMutAcquire(m)
  \/ \E m \in 1..NumMut : LkMutInvalidate(m)
  \/ \E m \in 1..NumMut : MutReturn(m)
  \/ LkSweepLock
  \/ LkSweepAcquire
  \/ LkSweepClean

SpecLock == Init /\ [][NextLock]_vars

LockOK ==
  /\ Cardinality(mutex.writer) <= 1
  /\ mutex.writer # {} => mutex.readers = {}


\* Scheduling: a goroutine that can take its next step takes it, and a
\* repository call returns (weak fairness); a goroutine blocked in Lock gets
\* the lock if it is free again and again (strong fairness: sync.Mutex hands
\* the lock to a starving waiter).
LockFairness ==
  /\ \A r \in 1..NumRes :
       /\ WF_vars(LkResCheck(r))
       /\ WF_vars(ResGetUser(r))
       /\ WF_vars(ResBatchGet(r))
       /\ WF_vars(LkResLock(r))
       /\ SF_vars(LkResAcquire(r))
       /\ WF_vars(LkResInstall(r))
  /\ \A m \in 1..NumMut :
       /\ WF_vars(MutGet(m))
       /\ WF_vars(MutPut(m))
       /\ WF_vars(LkMutLock(m))
       /\ SF_vars(LkMutAcquire(m))
       /\ WF_vars(LkMutInvalidate(m))
  /\ SF_vars(LkSweepAcquire)
  /\ WF_vars(LkSweepClean)

SpecLockFair == SpecLock /\ LockFairness

\* where a call is about to make, or waits for, a repository call
AtRepositoryCall(p) ==
  \/ \E r \in 1..NumRes : p = ResId(r) /\ res[r].pc \in {"getUser", "getGroups"}
  \/ \E m \in 1..NumMut : p = MutId(m) /\ mut[m].pc \in {"get", "put", "del"}

\* where a call edits the cache map under the write lock
AtMapEdit(p) ==
  \/ \E r \in 1..NumRes : p = ResId(r) /\ res[r].pc = "locked"
  \/ \E m \in 1..NumMut : p = MutId(m) /\ mut[m].pc = "locked"
  \/ p = SweepId /\ sweeper = "locked"

LockProcs ==
  {ResId(r) : r \in 1..NumRes} \cup {MutId(m) : m \in 1..NumMut} \cup {SweepId}

LockDiscipline ==
  /\ \A p \in LockProcs : AtRepositoryCall(p) => ~Holds(p)
  /\ \A p \in mutex.wwait : p \notin mutex.readers
  /\ \A p \in mutex.writer : AtMapEdit(p)
  /\ \A r \in 1..NumRes : ResId(r) \in mutex.readers => res[r].pc = "rlock"
  /\ Cardinality(mutex.writer) <= 1
  /\ mutex.writer # {} => mutex.readers = {}

\* C27: no repository call is made while the cache lock is held, no call
\* requests the write lock while it holds the read lock, the write lock is
\* held for the map edit only; and every started resolution, mutation and
\* sweep pass completes: nothing deadlocks.
C27_LockDiscipline ==
  /\ []LockDiscipline
  /\ \A r \in 1..NumRes : (res[r].pc # "idle") ~> (res[r].pc = "done")
  /\ \A m \in 1..NumMut : (mut[m].pc # "idle") ~> (mut[m].pc = "done")
  /\ (sweeper # "sleep") ~> (sweeper = "sleep")

\* C27 witness: one resolution holds the read lock, an invalidation is
\* blocked in Lock behind it, and a second resolution is blocked in RLock
\* behind the invalidation
C27_Witness ==
  /\ mutex.readers = {ResId(1)}
  /\ mutex.wwait = {MutId(1)}
  /\ mutex.rwait = {ResId(2)}
  /\ mut[1].op = "UpdateUserPermissions"

=============================================================================
